---- MODULE Spec2Model ----
(***************************************************************************)
(* A model of the transactional storage core of tinychain: the             *)
(* transactional block file (host/transact/src/fs/file.rs), the B-tree     *)
(* index built on it (prototype/collection/btree/file.rs) and the table    *)
(* with auxiliary indexes (prototype/collection/table/index.rs).           *)
(*                                                                         *)
(* The transactional lock (TxnLock), the block cache (Cache), the host     *)
(* directory (hostfs::Dir), the block guards (Block / BlockMut) and the    *)
(* Collator are used by these files but their source is not part of the    *)
(* tree; they are modelled from the specification (sections 4.A, 4.B, 4.C  *)
(* and 4.E) and are marked as such where they are defined.                 *)
(***************************************************************************)
EXTENDS Integers, Sequences, FiniteSets, TLC

VARIABLES
    file,       \* the File: dir, pending, listing, cache, mutated
    txns,       \* the life cycle of each transaction
    commit,     \* the position of the File::commit call in progress
    last,       \* the last completed call and what it returned
    history,    \* the listing published by each commit of the listing lock, in order
    calls,      \* the number of calls made so far
    btree,      \* the BTreeFile: file, root, order and the ids handed out
    live,       \* the keys inserted and not deleted since, per TXID view
    table,      \* the TableIndex: the primary index and the auxiliary one
    tasks       \* the calls in flight that run as concurrent tasks, each with its position

vars == <<file, txns, commit, last, history, calls, btree, live, table, tasks>>

(***************************************************************************)
(* Bounds of the model.                                                    *)
(***************************************************************************)
MaxTxn == 2
MaxBlock == 1
MaxData == 2
MaxCalls == 3

TxnIds == 1..MaxTxn

\* const TXN_CACHE: &str = ".pending"; block ids are numbered, and number 0
\* stands for the reserved name.
TXN_CACHE == 0
BlockIds == 0..MaxBlock
Data == 1..MaxData

(***************************************************************************)
(* Finite maps (HashMap / HashSet / directory listings).                   *)
(***************************************************************************)
EmptyMap == << >>

MapPut(f, k, v) == [x \in (DOMAIN f) \cup {k} |-> IF x = k THEN v ELSE f[x]]

MapDel(f, k) == [x \in (DOMAIN f) \ {k} |-> f[x]]

Ok(v) == [status |-> "Ok", val |-> <<v>>]

Err(e) == [status |-> e, val |-> << >>]

(***************************************************************************)
(* TxnLock: a canonical value plus a mapping TXID -> pending value.        *)
(***************************************************************************)
LockNew(v) == [canon |-> v, pend |-> EmptyMap]

\* read(txid): the pending value of txid if it has one, else the canonical
LockRead(l, t) == IF t \in DOMAIN l.pend THEN l.pend[t] ELSE l.canon

\* write(txid) fails with Conflict if another TXID holds a pending write
LockCanWrite(l, t) == \A u \in DOMAIN l.pend : u = t

\* write(txid): opens (or re-enters) the pending value of txid and stores v
LockWrite(l, t, v) == [l EXCEPT !.pend = MapPut(l.pend, t, v)]

\* commit(txid): promote the pending value, if any, to canonical
LockCommit(l, t) ==
    IF t \in DOMAIN l.pend
    THEN [canon |-> l.pend[t], pend |-> MapDel(l.pend, t)]
    ELSE l

\* rollback(txid): discard the pending value, if any
LockRollback(l, t) == [l EXCEPT !.pend = MapDel(l.pend, t)]

\* finalize(txid): release the per-txid state at or before txid
LockFinalize(l, t) ==
    [l EXCEPT !.pend = [u \in {x \in DOMAIN l.pend : x > t} |-> l.pend[u]]]

(***************************************************************************)
(* Block payloads: From<T> for Bytes and TryFrom<Bytes> for T.             *)
(***************************************************************************)
Serialize(d) == [bytes |-> d]

Deserialize(b) == b.bytes

(***************************************************************************)
(* Cache: block-id -> TxnLock over the decoded block.                      *)
(***************************************************************************)
\* Cache::insert(block_id, data): a new lock whose canonical value is data
CacheInsert(cache, id, d) == MapPut(cache, id, LockNew(d))

\* Cache::commit(txn_id): commit every slot
CacheCommit(cache, t) == [id \in DOMAIN cache |-> LockCommit(cache[id], t)]

(***************************************************************************)
(* File<T>                                                                 *)
(***************************************************************************)
\* File::create
FileNew ==
    [dir     |-> EmptyMap,
     pending |-> EmptyMap,
     listing |-> LockNew({}),
     cache   |-> EmptyMap,
     mutated |-> LockNew({})]

\* File::block_ids
FileBlockIds(f, t) == LockRead(f.listing, t)

\* File::is_empty
FileIsEmpty(f, t) == LockRead(f.listing, t) = {}

\* File::mutate with the Conflict of mutated.write(txn_id) ignored
FileMutate_IgnoresConflict(f, t, id) ==
    [f |-> [f EXCEPT !.mutated =
               LockWrite(f.mutated, t, LockRead(f.mutated, t) \cup {id})],
     r |-> Ok(id)]

\* File::mutate
FileMutate(f, t, id) ==
    IF ~LockCanWrite(f.mutated, t)
    THEN [f |-> f, r |-> Err("Conflict")]
    ELSE [f |-> [f EXCEPT !.mutated =
                    LockWrite(f.mutated, t, LockRead(f.mutated, t) \cup {id})],
          r |-> Ok(id)]

\* File::create_block writing the blob through to the canonical directory
FileCreateBlock_WritesThrough(f, t, id, d) ==
    IF id = TXN_CACHE
    THEN [f |-> f, r |-> Err("BadRequest")]
    ELSE IF ~LockCanWrite(f.listing, t)
    THEN [f |-> f, r |-> Err("Conflict")]
    ELSE LET cur == LockRead(f.listing, t)
             opened == [f EXCEPT !.listing = LockWrite(f.listing, t, cur)]
         IN  IF id \in cur
             THEN [f |-> opened, r |-> Err("BadRequest")]
             ELSE LET g == [f EXCEPT
                               !.listing = LockWrite(f.listing, t, cur \cup {id}),
                               !.cache = CacheInsert(f.cache, id, d),
                               !.dir = MapPut(f.dir, id, Serialize(d))]
                  IN  [f |-> g, r |-> Ok(LockRead(g.cache[id], t))]

\* File::create_block without the look into the listing
FileCreateBlock_Overwrites(f, t, id, d) ==
    IF id = TXN_CACHE
    THEN [f |-> f, r |-> Err("BadRequest")]
    ELSE IF ~LockCanWrite(f.listing, t)
    THEN [f |-> f, r |-> Err("Conflict")]
    ELSE LET g == [f EXCEPT
                      !.listing = LockWrite(f.listing, t,
                                            LockRead(f.listing, t) \cup {id}),
                      !.cache = CacheInsert(f.cache, id, d)]
         IN  [f |-> g, r |-> Ok(LockRead(g.cache[id], t))]

\* File::create_block
FileCreateBlock(f, t, id, d) ==
    IF id = TXN_CACHE
    THEN [f |-> f, r |-> Err("BadRequest")]
    ELSE IF ~LockCanWrite(f.listing, t)
    THEN [f |-> f, r |-> Err("Conflict")]
    ELSE LET cur == LockRead(f.listing, t)
             opened == [f EXCEPT !.listing = LockWrite(f.listing, t, cur)]
         IN  IF id \in cur
             THEN [f |-> opened, r |-> Err("BadRequest")]
             ELSE LET g == [f EXCEPT
                               !.listing = LockWrite(f.listing, t, cur \cup {id}),
                               !.cache = CacheInsert(f.cache, id, d)]
                  IN  [f |-> g, r |-> Ok(LockRead(g.cache[id], t))]

\* File::lock_block consulting the listing before the cache
FileLockBlock_ListingFirst(f, t, id) ==
    IF id \notin LockRead(f.listing, t)
    THEN [f |-> f, r |-> Err("NotFound")]
    ELSE IF id \in DOMAIN f.cache
    THEN [f |-> f, r |-> Ok(LockRead(f.cache[id], t))]
    ELSE IF id \in DOMAIN f.dir
    THEN [f |-> [f EXCEPT !.cache = CacheInsert(f.cache, id, Deserialize(f.dir[id]))],
          r |-> Ok(Deserialize(f.dir[id]))]
    ELSE [f |-> f, r |-> Err("Internal")]

\* File::lock_block (File::get_block, File::get_block_owned)
FileLockBlock(f, t, id) ==
    IF id \in DOMAIN f.cache
    THEN [f |-> f, r |-> Ok(LockRead(f.cache[id], t))]
    ELSE IF id \in LockRead(f.listing, t)
    THEN LET found ==
                 IF t \in DOMAIN f.pending /\ id \in DOMAIN f.pending[t]
                 THEN <<f.pending[t][id]>>
                 ELSE IF id \in DOMAIN f.dir
                 THEN <<f.dir[id]>>
                 ELSE << >>
         IN  IF found = << >>
             THEN [f |-> f, r |-> Err("Internal")]
             ELSE LET block == Deserialize(found[1])
                      g == [f EXCEPT !.cache = CacheInsert(f.cache, id, block)]
                  IN  [f |-> g, r |-> Ok(LockRead(g.cache[id], t))]
    ELSE [f |-> f, r |-> Err("NotFound")]

\* the store through the BlockMut guard: the write lock of the cache slot
FileStore(mut, t, id, d) ==
    IF mut.r.status # "Ok"
    THEN mut
    ELSE IF ~LockCanWrite(mut.f.cache[id], t)
    THEN [f |-> mut.f, r |-> Err("Conflict")]
    ELSE [f |-> [mut.f EXCEPT !.cache[id] = LockWrite(mut.f.cache[id], t, d)],
          r |-> Ok(d)]

\* Block::upgrade of the block got: File::mutate, then the store
FileUpgrade(got, t, id, d) ==
    IF got.r.status # "Ok"
    THEN got
    ELSE FileStore(FileMutate(got.f, t, id), t, id, d)

\* Block::upgrade followed by a store through the BlockMut guard
FileWriteBlock(f, t, id, d) == FileUpgrade(FileLockBlock(f, t, id), t, id, d)

(***************************************************************************)
(* hostfs::Dir                                                             *)
(***************************************************************************)
\* Dir::copy_all: move every block of src into dst, overwriting collisions
CopyAll(dst, src) ==
    [id \in (DOMAIN dst) \cup (DOMAIN src) |->
        IF id \in DOMAIN src THEN src[id] ELSE dst[id]]

\* Dir::delete_block
DeleteBlocks(dir, ids) == [id \in (DOMAIN dir) \ ids |-> dir[id]]

(***************************************************************************)
(* File::commit, one definition per numbered step of the function.         *)
(***************************************************************************)
\* lines 189-197: delete the blocks dropped from the listing, commit listing
CommitListing(f, t) ==
    LET new_listing == LockRead(f.listing, t)
        old_listing == f.listing.canon
    IN  [f EXCEPT !.dir = DeleteBlocks(f.dir, old_listing \ new_listing),
                  !.listing = LockCommit(f.listing, t)]

\* line 199: mutated.write(txn_id).unwrap() panics on a Conflict
CommitMutatedPanics(f, t) == ~LockCanWrite(f.mutated, t)

\* line 199: the drained set
CommitDrained(f, t) == LockRead(f.mutated, t)

\* lines 199-200 without the drain(): the set is committed as it stands
CommitMutated_NoDrain(f, t) ==
    [f EXCEPT !.mutated = LockCommit(LockWrite(f.mutated, t, LockRead(f.mutated, t)), t)]

\* lines 199-200: drain the mutated set and commit it
CommitMutated(f, t) ==
    [f EXCEPT !.mutated = LockCommit(LockWrite(f.mutated, t, {}), t)]

\* line 210: pending.create_or_get_dir(txn_id)
CommitCreateDir(f, t) ==
    IF t \in DOMAIN f.pending
    THEN f
    ELSE [f EXCEPT !.pending = MapPut(f.pending, t, EmptyMap)]

\* lines 212-229 reading the canonical value of the slot, not lock.read(txn_id)
CommitCopyOps_Canonical(f, t, M) ==
    [id \in M \cap DOMAIN f.cache |-> Serialize(f.cache[id].canon)]

\* lines 212-229: the blocks to stage, those of the drained set with a slot
CommitCopyOps(f, t, M) ==
    [id \in M \cap DOMAIN f.cache |-> Serialize(LockRead(f.cache[id], t))]

\* line 225: Dir::create_block fails on a name that exists; unwrap() panics
CommitStagePanics(f, t, M) ==
    (DOMAIN CommitCopyOps(f, t, M)) \cap (DOMAIN f.pending[t]) # {}

\* lines 212-229 writing the staged blocks into dir instead of txn_dir
CommitStage_IntoDir(f, t, M) ==
    [f EXCEPT !.dir = CopyAll(f.dir, CommitCopyOps(f, t, M))]

\* lines 212-229: write each staged block into pending/<txn_id>
CommitStage(f, t, M) ==
    [f EXCEPT !.pending[t] = CopyAll(f.pending[t], CommitCopyOps(f, t, M))]

\* lines 205 and 230: cache.commit(txn_id)
CommitCache(f, t) == [f EXCEPT !.cache = CacheCommit(f.cache, t)]

\* line 232: one block of dir.copy_all(txn_dir) moved
CommitCopyOne(f, t, id) ==
    [f EXCEPT !.dir = MapPut(f.dir, id, f.pending[t][id]),
              !.pending[t] = MapDel(f.pending[t], id)]

\* line 232: dir.copy_all(txn_dir)
CommitCopyAll(f, t) ==
    [f EXCEPT !.dir = CopyAll(f.dir, f.pending[t]),
              !.pending[t] = EmptyMap]

\* File::commit run from its first line to its last
FileCommit(f, t) ==
    LET f1 == CommitListing(f, t)
    IN  IF CommitMutatedPanics(f1, t)
        THEN [f |-> f1, r |-> Err("Panic")]
        ELSE LET M == CommitDrained(f1, t)
                 f2 == CommitMutated(f1, t)
             IN  IF M = {}
                 THEN [f |-> CommitCache(f2, t), r |-> Ok(t)]
                 ELSE LET f3 == CommitCreateDir(f2, t)
                      IN  IF CommitStagePanics(f3, t, M)
                          THEN [f |-> f3, r |-> Err("Panic")]
                          ELSE [f |-> CommitCopyAll(
                                        CommitCache(CommitStage(f3, t, M), t), t),
                                r |-> Ok(t)]

\* File::finalize: delete_dir(txn_id).unwrap(), then listing.finalize
FileFinalize(f, t) ==
    IF t \notin DOMAIN f.pending
    THEN [f |-> f, r |-> Err("Panic")]
    ELSE [f |-> [f EXCEPT !.pending = MapDel(f.pending, t),
                          !.listing = LockFinalize(f.listing, t)],
          r |-> Ok(t)]

\* File::rollback: rollback of each sub-lock at txn_id, no disk writes
FileRollback(f, t) ==
    [f EXCEPT !.listing = LockRollback(f.listing, t),
              !.mutated = LockRollback(f.mutated, t),
              !.cache = [id \in DOMAIN f.cache |-> LockRollback(f.cache[id], t)]]

(***************************************************************************)
(* The block file under concurrent transactions.  A transaction writes     *)
(* while it is active, is committed once, and is finalized afterwards;     *)
(* reads are possible at every TXID at any time.  File::commit runs step   *)
(* by step: the other calls interleave with it where the RwLocks it holds  *)
(* (dir from line 192, cache from line 202, pending from line 209) let     *)
(* them.                                                                   *)
(***************************************************************************)
Idle == [pc |-> "idle", txn |-> 0, M |-> {}, newListing |-> {},
         dirAtStart |-> EmptyMap, seen |-> EmptyMap]

NoCall == [op |-> "none", txn |-> 0, id |-> 0, status |-> "Ok", val |-> << >>]

Call(op, t, id, r) ==
    [op |-> op, txn |-> t, id |-> id, status |-> r.status, val |-> r.val]

InitFile ==
    /\ file = FileNew
    /\ txns = [t \in TxnIds |-> "active"]
    /\ commit = Idle
    /\ last = NoCall
    /\ history = << >>
    /\ calls = 0
    /\ btree = EmptyMap
    /\ live = EmptyMap
    /\ table = EmptyMap
    /\ tasks = << >>

\* the cache RwLock is free for a writer
CacheFree == commit.pc \in {"idle", "listed"}

\* the pending RwLock is free for a writer
PendingFree == commit.pc \in {"idle", "listed", "drained"}

Running == commit.pc # "interrupted"

CreateBlock(t, id, d) ==
    /\ calls < MaxCalls
    /\ calls' = calls + 1
    /\ UNCHANGED <<btree, live, table>>
    /\ Running /\ CacheFree
    /\ txns[t] = "active"
    /\ LET out == FileCreateBlock(file, t, id, d)
       IN  /\ file' = out.f
           /\ last' = Call("create_block", t, id, out.r)
    /\ UNCHANGED <<txns, commit, history>>
    /\ UNCHANGED tasks

GetBlock(t, id) ==
    /\ calls < MaxCalls
    /\ calls' = calls + 1
    /\ UNCHANGED <<btree, live, table>>
    /\ Running
    /\ LET out == FileLockBlock(file, t, id)
       IN  /\ file' = out.f
           /\ last' = Call("get_block", t, id, out.r)
    /\ UNCHANGED <<txns, commit, history>>
    /\ UNCHANGED tasks

Mutate(t, id) ==
    /\ calls < MaxCalls
    /\ calls' = calls + 1
    /\ UNCHANGED <<btree, live, table>>
    /\ Running
    /\ txns[t] = "active"
    /\ LET out == FileMutate(file, t, id)
       IN  /\ file' = out.f
           /\ last' = Call("mutate", t, id, out.r)
    /\ UNCHANGED <<txns, commit, history>>
    /\ UNCHANGED tasks

WriteBlock(t, id, d) ==
    /\ calls < MaxCalls
    /\ calls' = calls + 1
    /\ UNCHANGED <<btree, live, table>>
    /\ Running
    /\ txns[t] = "active"
    /\ LET out == FileWriteBlock(file, t, id, d)
       IN  /\ file' = out.f
           /\ last' = Call("write_block", t, id, out.r)
    /\ UNCHANGED <<txns, commit, history>>
    /\ UNCHANGED tasks

\* lines 187-197
CommitBegin(t) ==
    /\ calls < MaxCalls
    /\ calls' = calls + 1
    /\ UNCHANGED <<btree, live, table>>
    /\ commit.pc = "idle"
    /\ txns[t] = "active"
    /\ file' = CommitListing(file, t)
    /\ txns' = [txns EXCEPT ![t] = "committing"]
    /\ commit' = [pc |-> "listed", txn |-> t, M |-> {},
                  newListing |-> LockRead(file.listing, t),
                  dirAtStart |-> file.dir,
                  seen |-> EmptyMap]
    /\ history' = Append(history, [txn |-> t, val |-> LockRead(file.listing, t)])
    /\ UNCHANGED last
    /\ UNCHANGED tasks

\* lines 199-200; the unwrap() of a Conflict ends the call
CommitDrain ==
    /\ UNCHANGED calls
    /\ UNCHANGED <<btree, live, table>>
    /\ commit.pc = "listed"
    /\ IF CommitMutatedPanics(file, commit.txn)
       THEN /\ commit' = [commit EXCEPT !.pc = "idle"]
            /\ txns' = [txns EXCEPT ![commit.txn] = "failed"]
            /\ last' = Call("commit", commit.txn, 0, Err("Panic"))
            /\ UNCHANGED file
       ELSE /\ commit' = [commit EXCEPT !.pc = "drained",
                                        !.M = CommitDrained(file, commit.txn)]
            /\ file' = CommitMutated(file, commit.txn)
            /\ UNCHANGED <<txns, last>>
    /\ UNCHANGED history
    /\ UNCHANGED tasks

\* lines 204-207
CommitUnmutated ==
    /\ UNCHANGED calls
    /\ UNCHANGED <<btree, live, table>>
    /\ commit.pc = "drained"
    /\ commit.M = {}
    /\ file' = CommitCache(file, commit.txn)
    /\ commit' = [commit EXCEPT !.pc = "idle"]
    /\ txns' = [txns EXCEPT ![commit.txn] = "committed"]
    /\ last' = Call("commit", commit.txn, 0, Ok(commit.txn))
    /\ UNCHANGED history
    /\ UNCHANGED tasks

\* lines 209-210
CommitTxnDir ==
    /\ UNCHANGED calls
    /\ UNCHANGED <<btree, live, table>>
    /\ commit.pc = "drained"
    /\ commit.M # {}
    /\ file' = CommitCreateDir(file, commit.txn)
    /\ commit' = [commit EXCEPT !.pc = "dir"]
    /\ UNCHANGED <<txns, last, history>>
    /\ UNCHANGED tasks

\* lines 212-229
CommitStaging ==
    /\ UNCHANGED calls
    /\ UNCHANGED <<btree, live, table>>
    /\ commit.pc = "dir"
    /\ ~CommitStagePanics(file, commit.txn, commit.M)
    /\ file' = CommitStage(file, commit.txn, commit.M)
    /\ commit' = [commit EXCEPT !.pc = "staged",
                                !.seen = [id \in DOMAIN file.cache |->
                                             LockRead(file.cache[id], commit.txn)]]
    /\ UNCHANGED <<txns, last, history>>
    /\ UNCHANGED tasks

\* line 230
CommitCacheStep ==
    /\ UNCHANGED calls
    /\ UNCHANGED <<btree, live, table>>
    /\ commit.pc = "staged"
    /\ file' = CommitCache(file, commit.txn)
    /\ commit' = [commit EXCEPT !.pc = "cached"]
    /\ UNCHANGED <<txns, last, history>>
    /\ UNCHANGED tasks

\* line 232, block by block
CommitCopyStep(id) ==
    /\ UNCHANGED calls
    /\ UNCHANGED <<btree, live, table>>
    /\ commit.pc = "cached"
    /\ id \in DOMAIN file.pending[commit.txn]
    /\ file' = CommitCopyOne(file, commit.txn, id)
    /\ UNCHANGED <<txns, commit, last, history>>
    /\ UNCHANGED tasks

\* lines 232-236
CommitEnd ==
    /\ UNCHANGED calls
    /\ UNCHANGED <<btree, live, table>>
    /\ commit.pc = "cached"
    /\ DOMAIN file.pending[commit.txn] = {}
    /\ commit' = [commit EXCEPT !.pc = "idle"]
    /\ txns' = [txns EXCEPT ![commit.txn] = "committed"]
    /\ last' = Call("commit", commit.txn, 0, Ok(commit.txn))
    /\ UNCHANGED <<file, history>>
    /\ UNCHANGED tasks

\* the commit future is dropped, or an I/O error ends it, before line 230
CommitCancel ==
    /\ UNCHANGED calls
    /\ UNCHANGED <<btree, live, table>>
    /\ commit.pc \in {"listed", "drained", "dir", "staged"}
    /\ commit' = [commit EXCEPT !.pc = "idle"]
    /\ txns' = [txns EXCEPT ![commit.txn] = "failed"]
    /\ last' = Call("commit", commit.txn, 0, Err("Cancelled"))
    /\ UNCHANGED <<file, history>>
    /\ UNCHANGED tasks

\* the commit is interrupted after line 230 and before line 232 has finished
CommitInterrupt ==
    /\ UNCHANGED calls
    /\ UNCHANGED <<btree, live, table>>
    /\ commit.pc = "cached"
    /\ commit' = [commit EXCEPT !.pc = "interrupted"]
    /\ UNCHANGED <<file, txns, last, history>>
    /\ UNCHANGED tasks

\* recovery: copy_all of pending/<txid> before any other call is admitted
Replay ==
    /\ UNCHANGED calls
    /\ UNCHANGED <<btree, live, table>>
    /\ commit.pc = "interrupted"
    /\ file' = CommitCopyAll(file, commit.txn)
    /\ commit' = [commit EXCEPT !.pc = "idle"]
    /\ txns' = [txns EXCEPT ![commit.txn] = "committed"]
    /\ last' = Call("replay", commit.txn, 0, Ok(DOMAIN file.pending[commit.txn]))
    /\ UNCHANGED history
    /\ UNCHANGED tasks

Finalize(t) ==
    /\ calls < MaxCalls
    /\ calls' = calls + 1
    /\ UNCHANGED <<btree, live, table>>
    /\ Running /\ PendingFree
    /\ txns[t] # "committing"
    /\ LET out == FileFinalize(file, t)
       IN  /\ file' = out.f
           /\ last' = Call("finalize", t, 0, out.r)
    /\ txns' = [txns EXCEPT ![t] = "finalized"]
    /\ UNCHANGED <<commit, history>>
    /\ UNCHANGED tasks

NextFile ==
    \/ \E t \in TxnIds, id \in BlockIds, d \in Data : CreateBlock(t, id, d)
    \/ \E t \in TxnIds, id \in BlockIds : GetBlock(t, id)
    \/ \E t \in TxnIds, id \in BlockIds : Mutate(t, id)
    \/ \E t \in TxnIds, id \in BlockIds, d \in Data : WriteBlock(t, id, d)
    \/ \E t \in TxnIds : CommitBegin(t)
    \/ CommitDrain
    \/ CommitUnmutated
    \/ CommitTxnDir
    \/ CommitStaging
    \/ CommitCacheStep
    \/ \E id \in BlockIds : CommitCopyStep(id)
    \/ CommitEnd
    \/ CommitCancel
    \/ CommitInterrupt
    \/ Replay
    \/ \E t \in TxnIds : Finalize(t)

SpecFile == InitFile /\ [][NextFile]_vars

(***************************************************************************)
(* Claims about the block file, checked under SpecFile.                    *)
(***************************************************************************)
\* C1: a block created at T1 is read back at T1 at once, and get_block at any
\* other TXID fails with NotFound until commit(T1) has completed.
C1_Isolation ==
    /\ (last.op = "create_block" /\ last.status = "Ok")
          => FileLockBlock(file, last.txn, last.id).r = Ok(last.val[1])
    /\ (/\ last.op = "get_block"
        /\ last.id \notin file.listing.canon
        /\ \E t1 \in DOMAIN file.listing.pend :
              t1 # last.txn /\ last.id \in file.listing.pend[t1])
          => last.status = "NotFound"

\* C2: at most one TXID holds a pending value on a transactional lock, and a
\* write at T2 while T1 # T2 holds one fails with Conflict and leaves the
\* lock (T1's pending value and the canonical value) unchanged.
C2_AtMostOne ==
    /\ Cardinality(DOMAIN file.listing.pend) <= 1
    /\ Cardinality(DOMAIN file.mutated.pend) <= 1
    /\ \A id \in DOMAIN file.cache : Cardinality(DOMAIN file.cache[id].pend) <= 1

C2_ConflictStep ==
    \A t \in TxnIds, id \in BlockIds :
       /\ (/\ \E d \in Data : CreateBlock(t, id, d)
           /\ id # TXN_CACHE
           /\ \E u \in DOMAIN file.listing.pend : u # t)
             => (last'.status = "Conflict" /\ file'.listing = file.listing)
       /\ (/\ Mutate(t, id)
           /\ \E u \in DOMAIN file.mutated.pend : u # t)
             => (last'.status = "Conflict" /\ file'.mutated = file.mutated)
       /\ (/\ \E d \in Data : WriteBlock(t, id, d)
           /\ id \in DOMAIN file.cache
           /\ \E u \in DOMAIN file.cache[id].pend : u # t)
             => (last'.status = "Conflict" /\ file'.cache = file.cache)

C2_SingleWriter == []C2_AtMostOne /\ [][C2_ConflictStep]_vars

C2_Witness ==
    /\ last.status = "Conflict"
    /\ \/ last.op = "create_block" /\ \E u \in DOMAIN file.listing.pend : u # last.txn
       \/ last.op = "mutate" /\ \E u \in DOMAIN file.mutated.pend : u # last.txn

\* C5: after commit(txid) has completed, the canonical listing is the listing
\* txid saw just before the commit and the mutated set of txid is empty.
C5_CommitPublishes ==
    (last.op = "commit" /\ last.status = "Ok")
       => /\ file.listing.canon = commit.newListing
          /\ LockRead(file.mutated, last.txn) = {}

C5_Witness ==
    /\ last.op = "commit" /\ last.status = "Ok"
    /\ commit.newListing # {}
    /\ commit.M # {}

\* C6: after every completed commit the blob ids in the canonical directory
\* are exactly the canonical listing.
C6_DirIsListing ==
    (last.op = "commit" /\ last.status = "Ok")
       => DOMAIN file.dir = file.listing.canon

\* C7: a commit that fails or is cancelled before the cache commit leaves
\* the canonical directory with the blobs and contents it had at the start.
C7_CancelKeepsDir ==
    /\ commit.pc \in {"listed", "drained", "dir", "staged"}
          => file.dir = commit.dirAtStart
    /\ (/\ commit.pc = "idle"
        /\ last.op = "commit" /\ last.status \in {"Cancelled", "Panic"})
          => file.dir = commit.dirAtStart

C7_Witness ==
    /\ commit.pc = "idle"
    /\ last.op = "commit" /\ last.status = "Cancelled"
    /\ last.txn \in DOMAIN file.pending
    /\ DOMAIN file.pending[last.txn] # {}

\* the blocks File::commit stages for the transaction in commit
StagedIds == commit.M \cap DOMAIN commit.seen

CommitsAscend ==
    \A i, j \in DOMAIN history : i < j => history[i].txn < history[j].txn

\* C10: for commits on the listing lock made in ascending TXID order, a read
\* at TXID T returns the value committed by the largest committed TXID
\* Ci <= T, also after a later TXID has committed.
C10_SnapshotOrder ==
    CommitsAscend =>
       \A t \in TxnIds :
          LET older == {i \in DOMAIN history : history[i].txn <= t}
              latest == CHOOSE i \in older : \A x \in older : x <= i
          IN  (/\ older # {}
               /\ txns[t] # "finalized"
               /\ t \notin DOMAIN file.listing.pend)
                 => LockRead(file.listing, t) = history[latest].val

(***************************************************************************)
(* Collator: column-by-column comparison of keys and of keys with bounds.  *)
(***************************************************************************)
CompareValue(a, b) ==
    IF a < b THEN "Less" ELSE IF a > b THEN "Greater" ELSE "Equal"

RECURSIVE CompareFrom(_, _, _)
CompareFrom(a, b, i) ==
    IF i > Len(a) \/ i > Len(b)
    THEN "Equal"
    ELSE LET c == CompareValue(a[i], b[i])
         IN  IF c = "Equal" THEN CompareFrom(a, b, i + 1) ELSE c

\* Collator::compare
Compare(a, b) == CompareFrom(a, b, 1)

\* Bound: Unbounded, In(v) or Ex(v)
Unbounded == [kind |-> "Un", v |-> 0]

In(v) == [kind |-> "In", v |-> v]

Ex(v) == [kind |-> "Ex", v |-> v]

\* a key against the bounds of one end of a range; a key equal to an
\* exclusive bound falls on the side named by exclude, and the columns
\* past the last bound are unbounded
RECURSIVE CompareBoundFrom(_, _, _, _)
CompareBoundFrom(key, bounds, exclude, i) ==
    IF i > Len(key) \/ i > Len(bounds)
    THEN "Equal"
    ELSE IF bounds[i].kind = "Un"
    THEN CompareBoundFrom(key, bounds, exclude, i + 1)
    ELSE LET c == CompareValue(key[i], bounds[i].v)
         IN  IF c # "Equal" THEN c
             ELSE IF bounds[i].kind = "Ex" THEN exclude
             ELSE CompareBoundFrom(key, bounds, exclude, i + 1)

CompareBound(key, bounds, exclude) == CompareBoundFrom(key, bounds, exclude, 1)

\* binary search over the orderings of the keys: the first index whose
\* key is not Less
RECURSIVE BisectLeftOrd(_, _, _)
BisectLeftOrd(ords, lo, hi) ==
    IF lo >= hi
    THEN lo
    ELSE LET mid == (lo + hi) \div 2
         IN  IF ords[mid + 1] = "Less"
             THEN BisectLeftOrd(ords, mid + 1, hi)
             ELSE BisectLeftOrd(ords, lo, mid)

\* binary search over the orderings of the keys: the first index whose
\* key is Greater
RECURSIVE BisectRightOrd(_, _, _)
BisectRightOrd(ords, lo, hi) ==
    IF lo >= hi
    THEN lo
    ELSE LET mid == (lo + hi) \div 2
         IN  IF ords[mid + 1] = "Greater"
             THEN BisectRightOrd(ords, lo, mid)
             ELSE BisectRightOrd(ords, mid + 1, hi)

\* Collator::bisect_left
BisectLeft(keys, key) ==
    BisectLeftOrd([i \in 1..Len(keys) |-> Compare(keys[i].value, key)],
                  0, Len(keys))

\* Collator::bisect_left_range
BisectLeftRange(keys, start) ==
    BisectLeftOrd([i \in 1..Len(keys) |->
                      CompareBound(keys[i].value, start, "Less")],
                  0, Len(keys))

\* Collator::bisect_right_range
BisectRightRange(keys, end) ==
    BisectRightOrd([i \in 1..Len(keys) |->
                       CompareBound(keys[i].value, end, "Greater")],
                   0, Len(keys))

\* Collator::contains
Contains(start, end, key) ==
    /\ CompareBound(key, start, "Less") = "Equal"
    /\ CompareBound(key, end, "Greater") = "Equal"

(***************************************************************************)
(* BTreeRange                                                              *)
(***************************************************************************)
BTreeRange(start, end) == [start |-> start, end |-> end]

\* BTreeRange::default
RangeDefault == BTreeRange(<< >>, << >>)

\* impl From<Key> for BTreeRange
RangeFromKey(key) ==
    BTreeRange([i \in 1..Len(key) |-> In(key[i])],
               [i \in 1..Len(key) |-> In(key[i])])

\* fn bisect(range, keys, collator), 0-based as in the source
Bisect(range, keys) ==
    [l |-> BisectLeftRange(keys, range.start),
     r |-> BisectRightRange(keys, range.end)]

(***************************************************************************)
(* BTreeFile: nodes are the blocks of a File<Node>.                        *)
(***************************************************************************)
DEFAULT_BLOCK_SIZE == 4000
BLOCK_ID_SIZE == 128

\* the maximum length declared for the one column of the index, a column
\* without an inherent size
KeyMaxLen == 1490

\* BTreeFile::create, lines 161-181: size + 8 for each column, and 2
RECURSIVE KeySizeOf(_)
KeySizeOf(max_lens) ==
    IF max_lens = << >> THEN 2 ELSE (max_lens[1] + 8) + KeySizeOf(Tail(max_lens))

KeySize == KeySizeOf(<<KeyMaxLen>>)

\* BTreeFile::create, lines 183-192
Order(key_size) ==
    IF DEFAULT_BLOCK_SIZE > (key_size * 2) + (BLOCK_ID_SIZE * 3)
    THEN (DEFAULT_BLOCK_SIZE - BLOCK_ID_SIZE) \div (key_size + BLOCK_ID_SIZE)
    ELSE 2

\* impl From<Vec<Value>> for NodeKey
NodeKey(value) == [value |-> value, deleted |-> FALSE]

\* Node::new; parent is an Option: << >> or <<id>>
NodeNew(leaf, parent) ==
    [leaf |-> leaf, keys |-> << >>, parent |-> parent, children |-> << >>,
     rebalance |-> FALSE]

\* Vec::insert(i, x), i counted from 0
VecInsert(v, i, x) == SubSeq(v, 1, i) \o <<x>> \o SubSeq(v, i + 1, Len(v))

\* Vec::remove(i), i counted from 0
VecRemove(v, i) == SubSeq(v, 1, i) \o SubSeq(v, i + 2, Len(v))

\* slice[l..r], counted from 0
VecSlice(v, l, r) == SubSeq(v, l + 1, r)

\* File::unique_id: an id no listing holds; ids are handed out in sequence
UniqueId(b) == b.next

\* the B-tree with its file replaced
WithFile(b, f) == [b EXCEPT !.file = f]

\* a call on the file of the B-tree, as a call on the B-tree
BTCall(b, out) == [b |-> WithFile(b, out.f), r |-> out.r]

\* file.get_block(txn_id, id)
BTGet(b, t, id) == BTCall(b, FileLockBlock(b.file, t, id))

\* block.upgrade() and the assignments made through the BlockMut guard
BTWrite(b, t, id, node) == BTCall(b, FileWriteBlock(b.file, t, id, node))

\* block.upgrade() of the block got
BTUpgradeGot(got, t, id) ==
    IF got.r.status # "Ok" THEN got ELSE BTWrite(got.b, t, id, got.r.val[1])

\* block.upgrade() alone
BTUpgrade(b, t, id) == BTUpgradeGot(BTGet(b, t, id), t, id)

\* BTreeFile::create: a new leaf root in an empty file
BTreeCreate(t, first_id, key_size) ==
    [file  |-> FileCreateBlock(FileNew, t, first_id, NodeNew(TRUE, << >>)).f,
     order |-> Order(key_size),
     root  |-> LockNew(first_id),
     next  |-> first_id + 1]

\* split_child that leaves the median key in the child
SplitNodes_KeepsMedian(node, child, order, node_id, new_node_id, i) ==
    [node |-> [node EXCEPT
         !.children = VecInsert(node.children, i + 1, new_node_id),
         !.keys = VecInsert(node.keys, i, child.keys[order])],
     child |-> [child EXCEPT
         !.keys = VecSlice(child.keys, 0, order),
         !.children = IF child.leaf THEN child.children
                      ELSE VecSlice(child.children, 0, order)],
     new_node |-> [NodeNew(child.leaf, <<node_id>>) EXCEPT
         !.keys = VecSlice(VecRemove(child.keys, order - 1), order - 1,
                           Len(child.keys) - 1),
         !.children = IF child.leaf THEN << >>
                      ELSE VecSlice(child.children, order, Len(child.children))]]

\* split_child that moves no key into the new node
SplitNodes_DropsUpperHalf(node, child, order, node_id, new_node_id, i) ==
    [node |-> [node EXCEPT
         !.children = VecInsert(node.children, i + 1, new_node_id),
         !.keys = VecInsert(node.keys, i, child.keys[order])],
     child |-> [child EXCEPT
         !.keys = VecSlice(VecRemove(child.keys, order - 1), 0, order - 1),
         !.children = IF child.leaf THEN child.children
                      ELSE VecSlice(child.children, 0, order)],
     new_node |-> [NodeNew(child.leaf, <<node_id>>) EXCEPT
         !.children = IF child.leaf THEN << >>
                      ELSE VecSlice(child.children, order, Len(child.children))]]

\* split_child, lines 468-480: the parent with the median key and the new
\* child, the child with its lower half, the new node with the upper half
SplitNodes_SiblingBefore(node, child, order, node_id, new_node_id, i) ==
    [node |-> [node EXCEPT
         !.children = VecInsert(node.children, i, new_node_id),
         !.keys = VecInsert(node.keys, i, child.keys[order])],
     child |-> [child EXCEPT
         !.keys = VecSlice(VecRemove(child.keys, order - 1), 0, order - 1),
         !.children = IF child.leaf THEN child.children
                      ELSE VecSlice(child.children, 0, order)],
     new_node |-> [NodeNew(child.leaf, <<node_id>>) EXCEPT
         !.keys = VecSlice(VecRemove(child.keys, order - 1), order - 1,
                           Len(child.keys) - 1),
         !.children = IF child.leaf THEN << >>
                      ELSE VecSlice(child.children, order, Len(child.children))]]

SplitNodes(node, child, order, node_id, new_node_id, i) ==
    [node |-> [node EXCEPT
         !.children = VecInsert(node.children, i + 1, new_node_id),
         !.keys = VecInsert(node.keys, i, child.keys[order])],
     child |-> [child EXCEPT
         !.keys = VecSlice(VecRemove(child.keys, order - 1), 0, order - 1),
         !.children = IF child.leaf THEN child.children
                      ELSE VecSlice(child.children, 0, order)],
     new_node |-> [NodeNew(child.leaf, <<node_id>>) EXCEPT
         !.keys = VecSlice(VecRemove(child.keys, order - 1), order - 1,
                           Len(child.keys) - 1),
         !.children = IF child.leaf THEN << >>
                      ELSE VecSlice(child.children, order, Len(child.children))]]

\* split_child, lines 482-487: the new node becomes a block of the file
SplitMade(b, made, node) ==
    [b |-> WithFile(b, made.f),
     r |-> IF made.r.status = "Ok" THEN Ok(node) ELSE made.r]

\* split_child, lines 482-485, after the two writes
SplitCreate(b, t, new_node_id, nodes) ==
    SplitMade(b, FileCreateBlock(b.file, t, new_node_id, nodes.new_node),
              nodes.node)

\* split_child, the parent and the child written through their guards
SplitStore(b, t, pid, child_id, new_node_id, nodes) ==
    SplitCreate(
        BTWrite(BTWrite(b, t, pid, nodes.node).b, t, child_id, nodes.child).b,
        t, new_node_id, nodes)

\* split_child once the child is upgraded
SplitUpgraded(up, t, node, node_id, pid, i) ==
    IF up.r.status # "Ok"
    THEN up
    ELSE SplitStore([up.b EXCEPT !.next = UniqueId(up.b) + 1], t, pid,
                    node.children[i + 1], UniqueId(up.b),
                    SplitNodes(node, up.r.val[1], up.b.order, node_id,
                               UniqueId(up.b), i))

\* split_child of the node read from block pid
SplitNode(b, t, node, node_id, pid, i) ==
    SplitUpgraded(BTUpgrade(b, t, node.children[i + 1]), t, node, node_id, pid, i)

\* BTreeFile::split_child; node (block pid) has been upgraded by the caller
SplitChild(b, t, node_id, pid, i) ==
    SplitNode(b, t, BTGet(b, t, pid).r.val[1], node_id, pid, i)

\* _insert that returns without clearing the tombstone
Undelete_KeepsTombstone(b, t, id, node, i) == [b |-> b, r |-> Ok(node)]

\* node.keys[i].deleted = false, through an upgrade if the key is deleted
Undelete(b, t, id, node, i) ==
    IF node.keys[i + 1].deleted
    THEN BTWrite(b, t, id, [node EXCEPT !.keys[i + 1].deleted = FALSE])
    ELSE [b |-> b, r |-> Ok(node)]

\* BTreeFile::_insert into the node in block id
RECURSIVE InsertNode(_, _, _, _)
RECURSIVE InsertGot(_, _, _, _)
RECURSIVE InsertAt(_, _, _, _, _, _)
RECURSIVE InsertChild(_, _, _, _, _, _)
RECURSIVE InsertUpgraded(_, _, _, _, _, _)
RECURSIVE InsertSplit(_, _, _, _, _, _)
RECURSIVE InsertBeside(_, _, _, _, _, _, _, _)
InsertNode(b, t, id, key) == InsertGot(BTGet(b, t, id), t, id, key)

\* _insert, line 395: the position of the key in the node
InsertGot(got, t, id, key) ==
    IF got.r.status # "Ok"
    THEN got
    ELSE InsertAt(got.b, t, id, key, got.r.val[1],
                  BisectLeft(got.r.val[1].keys, key))

\* _insert, lines 396-416: the key is in the node, or the node is a leaf,
\* or the child is read
InsertAt(b, t, id, key, node, i) ==
    IF i < Len(node.keys) /\ Compare(node.keys[i + 1].value, key) = "Equal"
    THEN Undelete(b, t, id, node, i)
    ELSE IF node.leaf
    THEN BTWrite(b, t, id,
                 [node EXCEPT !.keys = VecInsert(node.keys, i, NodeKey(key))])
    ELSE InsertChild(BTGet(b, t, node.children[i + 1]), t, id, key,
                     node.children[i + 1], i)

\* _insert, lines 418-420 and 442: the child is full, or not
InsertChild(cgot, t, id, key, child_id, i) ==
    IF cgot.r.status # "Ok"
    THEN cgot
    ELSE IF Len(cgot.r.val[1].keys) # (2 * cgot.b.order) - 1
    THEN InsertNode(cgot.b, t, child_id, key)
    ELSE InsertUpgraded(BTUpgrade(cgot.b, t, id), t, id, key, child_id, i)

\* _insert, lines 419-421: split the child of the upgraded node
InsertUpgraded(up, t, id, key, child_id, i) ==
    IF up.r.status # "Ok"
    THEN up
    ELSE InsertSplit(SplitChild(up.b, t, child_id, id, i), t, id, key, child_id, i)

\* _insert, lines 423-442: the key against the median now in the node
InsertSplit(sp, t, id, key, child_id, i) ==
    IF sp.r.status # "Ok"
    THEN sp
    ELSE InsertBeside(sp.b, t, id, key, child_id, i, sp.r.val[1],
                      Compare(key, sp.r.val[1].keys[i + 1].value))

InsertBeside(b, t, id, key, child_id, i, node, c) ==
    IF c = "Less"
    THEN InsertNode(b, t, child_id, key)
    ELSE IF c = "Equal"
    THEN Undelete(b, t, id, node, i)
    ELSE InsertNode(b, t, node.children[i + 2], key)

\* insert, lines 623-626: the id of the new root stored in the root lock
NewRoot(b, t, new_root_id) ==
    [b EXCEPT !.next = new_root_id + 1,
              !.root = LockWrite(b.root, t, new_root_id)]

\* insert, lines 635-642: split the old root under the new one
InsertRootSplit(sp, t, new_root_id, key) ==
    IF sp.r.status # "Ok" THEN sp ELSE InsertNode(sp.b, t, new_root_id, key)

InsertRootUpgraded(up, t, root_id, new_root_id, key) ==
    IF up.r.status # "Ok"
    THEN up
    ELSE InsertRootSplit(SplitChild(up.b, t, root_id, new_root_id, 0),
                         t, new_root_id, key)

\* insert, lines 627-633: the block of the new root
InsertRootMade(b, made, t, root_id, new_root_id, key) ==
    IF made.r.status # "Ok"
    THEN [b |-> WithFile(b, made.f), r |-> made.r]
    ELSE InsertRootUpgraded(BTUpgrade(WithFile(b, made.f), t, new_root_id),
                            t, root_id, new_root_id, key)

InsertNewRoot(b, t, root_id, new_root_id, key) ==
    InsertRootMade(b,
        FileCreateBlock(b.file, t, new_root_id,
            [NodeNew(FALSE, << >>) EXCEPT !.children = <<root_id>>]),
        t, root_id, new_root_id, key)

\* insert, lines 612-645: the root is full, or not
InsertRoot(got, root, t, root_id, key) ==
    IF got.r.status # "Ok"
    THEN got
    ELSE IF Len(got.r.val[1].keys) # (2 * got.b.order) - 1
    THEN InsertNode(got.b, t, root_id, key)
    ELSE IF ~LockCanWrite(root, t)
    THEN [b |-> got.b, r |-> Err("Conflict")]
    ELSE InsertNewRoot(NewRoot(got.b, t, UniqueId(got.b)), t, root_id,
                       UniqueId(got.b), key)

\* BTreeInstance::insert
BTreeInsert(b, t, key) ==
    InsertRoot(BTGet(b, t, LockRead(b.root, t)), b.root, t, LockRead(b.root, t), key)

\* _delete that sets no tombstone
MarkDeleted_Nothing(keys, l, r) == keys

\* node.keys[i].deleted = true for i in l..r
MarkDeleted(keys, l, r) ==
    [i \in 1..Len(keys) |->
        IF l < i /\ i <= r THEN [keys[i] EXCEPT !.deleted = TRUE] ELSE keys[i]]

\* _delete, lines 507-511 and 515-522: the node as the guard leaves it
Marked(node, lr) ==
    [node EXCEPT !.keys = MarkDeleted(node.keys, lr.l, lr.r),
                 !.rebalance = TRUE]

\* BTreeFile::_delete in the node of block id, then in the children listed
RECURSIVE DeleteNode(_, _, _, _)
RECURSIVE DeleteGot(_, _, _, _)
RECURSIVE DeleteAt(_, _, _, _, _, _)
RECURSIVE DeleteBelow(_, _, _, _)
RECURSIVE DeleteChildren(_, _, _, _)
RECURSIVE DeleteRest(_, _, _, _)
DeleteNode(b, t, id, range) == DeleteGot(BTGet(b, t, id), t, id, range)

DeleteGot(got, t, id, range) ==
    IF got.r.status # "Ok"
    THEN got
    ELSE DeleteAt(got.b, t, id, range, got.r.val[1],
                  Bisect(range, got.r.val[1].keys))

DeleteAt(b, t, id, range, node, lr) ==
    IF node.leaf
    THEN IF lr.l = lr.r
         THEN [b |-> b, r |-> Ok(0)]
         ELSE BTWrite(b, t, id, Marked(node, lr))
    ELSE IF lr.r > lr.l
    THEN DeleteBelow(BTWrite(b, t, id, Marked(node, lr)), t,
                     VecSlice(node.children, lr.l, lr.r + 1), range)
    ELSE DeleteNode(b, t, node.children[lr.r + 1], range)

DeleteBelow(put, t, ids, range) ==
    IF put.r.status # "Ok" THEN put ELSE DeleteChildren(put.b, t, ids, range)

DeleteChildren(b, t, ids, range) ==
    IF ids = << >>
    THEN [b |-> b, r |-> Ok(0)]
    ELSE DeleteRest(DeleteNode(b, t, ids[1], range), t, Tail(ids), range)

DeleteRest(done, t, ids, range) ==
    IF done.r.status # "Ok" THEN done ELSE DeleteChildren(done.b, t, ids, range)

\* BTreeInstance::delete
BTreeDelete(b, t, range) == DeleteNode(b, t, LockRead(b.root, t), range)

\* node.keys[l..r].iter().filter(|k| !k.deleted).map(|k| k.value.to_vec())
LeafKeys(keys, l, r) ==
    LET picked == VecSlice(keys, l, r)
        F[i \in 0..Len(picked)] ==
            IF i = 0 THEN << >>
            ELSE IF picked[i].deleted THEN F[i - 1]
            ELSE Append(F[i - 1], picked[i].value)
    IN  F[Len(picked)]

\* _slice in a leaf, lines 225-246; keys[l..r] with l > r panics
SliceLeaf(keys, l, r, range) ==
    IF l = r /\ l < Len(keys)
    THEN IF /\ ~keys[l + 1].deleted
            /\ Contains(range.start, range.end, keys[l + 1].value)
         THEN Ok(<<keys[l + 1].value>>)
         ELSE Ok(<< >>)
    ELSE IF l > r
    THEN Err("Panic")
    ELSE Ok(LeafKeys(keys, l, r))

\* the keys of a child, the key after it, and the keys of the rest
SliceJoin(sub, key, more) ==
    IF sub.status # "Ok" THEN sub
    ELSE IF more.status # "Ok" THEN more
    ELSE Ok(sub.val[1] \o (IF key.deleted THEN << >> ELSE <<key.value>>)
                       \o more.val[1])

\* BTreeFile::_slice of the node in block id: the keys it yields, or the
\* error that ends the stream
RECURSIVE SliceNode(_, _, _, _)
RECURSIVE SliceGot(_, _, _)
RECURSIVE SliceAt(_, _, _, _, _)
RECURSIVE SliceChildren(_, _, _, _, _, _)
SliceNode(b, t, id, range) == SliceGot(BTGet(b, t, id), t, range)

SliceGot(got, t, range) ==
    IF got.r.status # "Ok"
    THEN got.r
    ELSE SliceAt(got.b, t, range, got.r.val[1], Bisect(range, got.r.val[1].keys))

SliceAt(b, t, range, node, lr) ==
    IF node.leaf
    THEN SliceLeaf(node.keys, lr.l, lr.r, range)
    ELSE SliceChildren(b, t, node, lr.l, lr.r, range)

SliceChildren(b, t, node, i, r, range) ==
    IF i >= r
    THEN SliceNode(b, t, node.children[r + 1], range)
    ELSE SliceJoin(SliceNode(b, t, node.children[i + 1], range),
                   node.keys[i + 1],
                   SliceChildren(b, t, node, i + 1, r, range))

\* BTreeInstance::stream(txn_id, range, false), collected
BTreeStream(b, t, range) == SliceNode(b, t, LockRead(b.root, t), range)

\* Iterator::rev
Reverse(seq) == [i \in 1..Len(seq) |-> seq[Len(seq) + 1 - i]]

\* _slice_reverse in a leaf that takes the keys in stream order
SliceReverseLeaf_Forward(keys, l, r) ==
    IF l > r THEN Err("Panic") ELSE Ok(LeafKeys(keys, l, r))

\* _slice_reverse in a leaf, lines 293-302; keys[l..r] with l > r panics
SliceReverseLeaf(keys, l, r) ==
    IF l > r THEN Err("Panic") ELSE Ok(Reverse(LeafKeys(keys, l, r)))

\* the keys selected so far, then key i, then the keys of child i
SliceReverseJoin(first, key, sub) ==
    IF first.status # "Ok" THEN first
    ELSE IF sub.status # "Ok" THEN sub
    ELSE Ok(first.val[1] \o (IF key.deleted THEN << >> ELSE <<key.value>>)
                         \o sub.val[1])

\* BTreeFile::_slice_reverse of the node in block id
RECURSIVE SliceReverseNode(_, _, _, _)
RECURSIVE SliceReverseGot(_, _, _)
RECURSIVE SliceReverseAt(_, _, _, _, _)
RECURSIVE SliceReverseChildren(_, _, _, _, _, _)
SliceReverseNode(b, t, id, range) == SliceReverseGot(BTGet(b, t, id), t, range)

SliceReverseGot(got, t, range) ==
    IF got.r.status # "Ok"
    THEN got.r
    ELSE SliceReverseAt(got.b, t, range, got.r.val[1],
                        Bisect(range, got.r.val[1].keys))

SliceReverseAt(b, t, range, node, lr) ==
    IF node.leaf
    THEN SliceReverseLeaf(node.keys, lr.l, lr.r)
    ELSE SliceReverseChildren(b, t, node, lr.l, lr.r, range)

\* lines 306-331: child r, then for i in (l..r).rev() key i and child i;
\* here i runs from l upwards and the later selections come first
SliceReverseChildren(b, t, node, i, r, range) ==
    IF i >= r
    THEN SliceReverseNode(b, t, node.children[r + 1], range)
    ELSE SliceReverseJoin(SliceReverseChildren(b, t, node, i + 1, r, range),
                          node.keys[i + 1],
                          SliceReverseNode(b, t, node.children[i + 1], range))

\* BTreeInstance::stream(txn_id, range, true), collected
BTreeStreamReverse(b, t, range) ==
    SliceReverseNode(b, t, LockRead(b.root, t), range)

\* Transact::commit once file.commit has returned or panicked
BTreeCommitted(b, t, root_done, done) ==
    [b |-> [b EXCEPT !.file = done.f,
                     !.root = IF done.r.status = "Ok" \/ root_done
                              THEN LockCommit(b.root, t)
                              ELSE b.root],
     r |-> done.r]

\* impl Transact for BTreeFile: commit, join(file.commit, root.commit);
\* when file.commit panics, root.commit has run or not (root_done)
BTreeCommit(b, t, root_done) ==
    BTreeCommitted(b, t, root_done, FileCommit(b.file, t))

\* rollback that leaves the root lock as it is
BTreeRollback_KeepsRoot(b, t) == [b EXCEPT !.file = FileRollback(b.file, t)]

\* impl Transact for BTreeFile: rollback, join(file.rollback, root.rollback)
BTreeRollback(b, t) ==
    [b EXCEPT !.file = FileRollback(b.file, t),
              !.root = LockRollback(b.root, t)]

\* _update, lines 361-364 and 371-374: node.keys[i] = value.into(), l <= i < r
Updated(node, lr, value) ==
    [node EXCEPT !.keys = [i \in 1..Len(node.keys) |->
        IF lr.l < i /\ i <= lr.r THEN NodeKey(value) ELSE node.keys[i]]]

\* BTreeFile::_update in the node of block id, then in the children listed
RECURSIVE UpdateNode(_, _, _, _, _)
RECURSIVE UpdateGot(_, _, _, _, _)
RECURSIVE UpdateAt(_, _, _, _, _, _, _)
RECURSIVE UpdateBelow(_, _, _, _, _)
RECURSIVE UpdateChildren(_, _, _, _, _)
RECURSIVE UpdateRest(_, _, _, _, _)
UpdateNode(b, t, id, range, value) ==
    UpdateGot(BTGet(b, t, id), t, id, range, value)

UpdateGot(got, t, id, range, value) ==
    IF got.r.status # "Ok"
    THEN got
    ELSE UpdateAt(got.b, t, id, range, value, got.r.val[1],
                  Bisect(range, got.r.val[1].keys))

UpdateAt(b, t, id, range, value, node, lr) ==
    IF node.leaf
    THEN IF lr.l = lr.r
         THEN [b |-> b, r |-> Ok(0)]
         ELSE BTWrite(b, t, id, Updated(node, lr, value))
    ELSE IF lr.r > lr.l
    THEN UpdateBelow(BTWrite(b, t, id, Updated(node, lr, value)), t,
                     VecSlice(node.children, lr.l, lr.r + 1), range, value)
    ELSE UpdateNode(b, t, node.children[lr.r + 1], range, value)

UpdateBelow(put, t, ids, range, value) ==
    IF put.r.status # "Ok"
    THEN put
    ELSE UpdateChildren(put.b, t, ids, range, value)

UpdateChildren(b, t, ids, range, value) ==
    IF ids = << >>
    THEN [b |-> b, r |-> Ok(0)]
    ELSE UpdateRest(UpdateNode(b, t, ids[1], range, value), t, Tail(ids),
                    range, value)

UpdateRest(done, t, ids, range, value) ==
    IF done.r.status # "Ok"
    THEN done
    ELSE UpdateChildren(done.b, t, ids, range, value)

\* BTreeFile::update
BTreeUpdate(b, t, range, value) ==
    UpdateNode(b, t, LockRead(b.root, t), range, value)

(***************************************************************************)
(* A B-tree index used at one TXID, the TXID that created it.  The keys    *)
(* have one integer column.  live is the set of keys an index with these   *)
(* calls has to hold: a transactional set with the life cycle of the tree. *)
(***************************************************************************)
MaxKey == 5

Keys == {<<k>> : k \in 1..MaxKey}

\* the bounds of one end of a range over one column
Bounds ==
    {<< >>, <<Unbounded>>}
       \cup {<<In(v)>> : v \in 1..MaxKey} \cup {<<Ex(v)>> : v \in 1..MaxKey}

Ranges == {BTreeRange(s, e) : s \in Bounds, e \in Bounds}

\* the ranges handed to delete: open or inclusive at either end
DeleteRanges ==
    LET ends == {<< >>} \cup {<<In(v)>> : v \in 1..MaxKey}
    IN  {BTreeRange(s, e) : s \in ends, e \in ends}

\* the TXID of BTreeFile::create, and the block id of the first root
Creator == 1
FirstRoot == 1

InitBTree ==
    /\ btree = BTreeCreate(Creator, FirstRoot, KeySize)
    /\ live = LockNew({})
    /\ table = EmptyMap
    /\ file = FileNew
    /\ txns = [t \in TxnIds |-> "active"]
    /\ commit = Idle
    /\ last = NoCall
    /\ history = << >>
    /\ calls = 0
    /\ tasks = << >>

\* the result of a call without the guard it carries
Done(r) == IF r.status = "Ok" THEN Ok(0) ELSE r

\* the set live as TXID t sees it becomes view: a pending value of t
LiveWrite(t, view) ==
    IF view = LockRead(live, t) THEN live ELSE LockWrite(live, t, view)

\* a call on the index that leaves out, and view if it succeeds
TreeCall(op, t, out, view) ==
    /\ btree' = out.b
    /\ live' = IF out.r.status = "Ok" THEN LiveWrite(t, view) ELSE live
    /\ last' = Call(op, t, 0, Done(out.r))

\* insert(txn_id, key)
TreeInsert(t, key) ==
    TreeCall("insert", t, BTreeInsert(btree, t, key), LockRead(live, t) \cup {key})

\* the reference meaning of a range over keys of one column
AboveStart(key, start) ==
    \A i \in 1..Len(start) :
        \/ start[i].kind = "Un"
        \/ start[i].kind = "In" /\ key[i] >= start[i].v
        \/ start[i].kind = "Ex" /\ key[i] > start[i].v

BelowEnd(key, end) ==
    \A i \in 1..Len(end) :
        \/ end[i].kind = "Un"
        \/ end[i].kind = "In" /\ key[i] <= end[i].v
        \/ end[i].kind = "Ex" /\ key[i] < end[i].v

InRange(key, range) == AboveStart(key, range.start) /\ BelowEnd(key, range.end)

\* delete(txn_id, range)
TreeDelete(t, range) ==
    TreeCall("delete", t, BTreeDelete(btree, t, range),
             {k \in LockRead(live, t) : ~InRange(k, range)})

Insert(key) ==
    /\ TreeInsert(Creator, key)
    /\ UNCHANGED <<file, txns, commit, history, calls, table>>
    /\ UNCHANGED tasks

Delete(range) ==
    /\ TreeDelete(Creator, range)
    /\ UNCHANGED <<file, txns, commit, history, calls, table>>
    /\ UNCHANGED tasks

NextBTree ==
    \/ \E key \in Keys : Insert(key)
    \/ \E range \in DeleteRanges : Delete(range)

SpecBTree == InitBTree /\ [][NextBTree]_vars

\* the keys of a set in ascending collator order
RECURSIVE Ascending(_)
Ascending(S) ==
    IF S = {}
    THEN << >>
    ELSE LET least == CHOOSE k \in S : \A x \in S : Compare(k, x) # "Greater"
         IN  <<least>> \o Ascending(S \ {least})

\* the keys stream(txn_id, range, false) has to yield
LiveIn(t, range) == Ascending({k \in LockRead(live, t) : InRange(k, range)})

\* C3: after every sequence of inserts and deletes at TXID T, for every
\* range, stream(T, range, false) yields exactly the live keys inside the
\* range, each once, in ascending collator order.
C3_StreamIsLive ==
    \A range \in Ranges :
        BTreeStream(btree, Creator, range) = Ok(LiveIn(Creator, range))

\* a range whose start does not lie above its end
Proper(range) ==
    \/ range.start = << >> \/ range.end = << >>
    \/ range.start[1].kind = "Un" \/ range.end[1].kind = "Un"
    \/ range.start[1].v < range.end[1].v
    \/ /\ range.start[1].v = range.end[1].v
       /\ range.start[1].kind = "In" /\ range.end[1].kind = "In"

\* C3 for the ranges that are not empty by construction
C3_ProperRanges ==
    \A range \in {x \in Ranges : Proper(x)} :
        BTreeStream(btree, Creator, range) = Ok(LiveIn(Creator, range))

(***************************************************************************)
(* A B-tree index used by several transactions.  The TXID Creator has      *)
(* created it; every TXID inserts and deletes while it is active, and      *)
(* commits once.                                                           *)
(***************************************************************************)
MaxOps == 5

TreeTxns == 1..(MaxTxn + 1)

\* the keys the transactions insert
MaxTxnKey == 4

TxnKeys == {<<k>> : k \in 1..MaxTxnKey}

\* the ranges handed to delete: one key, or every key
TxnRanges == {RangeDefault} \cup {RangeFromKey(k) : k \in TxnKeys}

InitBTreeTxn ==
    /\ btree = BTreeCreate(Creator, FirstRoot, KeySize)
    /\ live = LockNew({})
    /\ table = EmptyMap
    /\ file = FileNew
    /\ txns = [t \in TreeTxns |-> "active"]
    /\ commit = Idle
    /\ last = NoCall
    /\ history = << >>
    /\ calls = 0
    /\ tasks = << >>

TxnInsert(t, key) ==
    /\ calls < MaxOps
    /\ calls' = calls + 1
    /\ txns[t] = "active"
    /\ TreeInsert(t, key)
    /\ UNCHANGED <<file, txns, commit, history, table>>
    /\ UNCHANGED tasks

TxnDelete(t, range) ==
    /\ calls < MaxOps
    /\ calls' = calls + 1
    /\ txns[t] = "active"
    /\ TreeDelete(t, range)
    /\ UNCHANGED <<file, txns, commit, history, table>>
    /\ UNCHANGED tasks

\* commit(txn_id) of the index has left out
TreeCommitted(t, out) ==
    /\ btree' = out.b
    /\ last' = Call("commit", t, 0, out.r)
    /\ live' = IF out.r.status = "Ok" THEN LockCommit(live, t) ELSE live
    /\ txns' = [txns EXCEPT ![t] = IF out.r.status = "Ok"
                                   THEN "committed" ELSE "failed"]
    /\ history' = IF out.r.status = "Ok"
                  THEN Append(history, [txn |-> t, val |-> LockRead(live, t)])
                  ELSE history

\* commit(txn_id) of the index
TxnCommit(t, root_done) ==
    /\ calls < MaxOps
    /\ calls' = calls + 1
    /\ txns[t] = "active"
    /\ TreeCommitted(t, BTreeCommit(btree, t, root_done))
    /\ UNCHANGED <<file, commit, table>>
    /\ UNCHANGED tasks

NextBTreeTxn ==
    \/ \E t \in TreeTxns, key \in TxnKeys : TxnInsert(t, key)
    \/ \E t \in TreeTxns, range \in TxnRanges : TxnDelete(t, range)
    \/ \E t \in TreeTxns, root_done \in BOOLEAN : TxnCommit(t, root_done)

SpecBTreeTxn == InitBTreeTxn /\ [][NextBTreeTxn]_vars

\* C9: once commit(T1) has completed, stream at every TXID T2 > T1 that has
\* written nothing itself yields the keys of the commits made so far, the
\* later commit applied to the outcome of the earlier one.
C9_CommitIsDurable ==
    \A t2 \in TreeTxns :
        (/\ \E i \in DOMAIN history : history[i].txn < t2
         /\ t2 \notin DOMAIN live.pend)
           => BTreeStream(btree, t2, RangeDefault) = Ok(Ascending(live.canon))

(***************************************************************************)
(* A B-tree index whose transactions end in commit or in rollback.  The    *)
(* TXID Creator has created the index, inserted the first keys and         *)
(* committed; the later TXIDs insert, delete and update while they are     *)
(* active.  history maps a TXID that has written to the state of the       *)
(* index when it started, as long as no transaction has committed since.   *)
(***************************************************************************)
MaxSeed == 3

MaxUndoOps == 4

\* the TXIDs after the creator, and a TXID after them that only reads
Writers == TreeTxns \ {Creator}

Reader == MaxTxn + 2

\* the index after insert(Creator, <<1>>) .. insert(Creator, <<n>>)
RECURSIVE Seeded(_)
Seeded(n) ==
    IF n = 0
    THEN BTreeCreate(Creator, FirstRoot, KeySize)
    ELSE BTreeInsert(Seeded(n - 1), Creator, <<n>>).b

InitUndo ==
    /\ \E n \in 0..MaxSeed : btree = BTreeCommit(Seeded(n), Creator, TRUE).b
    /\ live = LockNew({})
    /\ table = EmptyMap
    /\ file = FileNew
    /\ txns = [t \in TreeTxns |-> IF t = Creator THEN "committed" ELSE "active"]
    /\ commit = Idle
    /\ last = NoCall
    /\ history = EmptyMap
    /\ calls = 0
    /\ tasks = << >>

\* the index as a transaction finds it when it starts
Start ==
    [keys |-> BTreeStream(btree, Reader, RangeDefault),
     root |-> btree.root.canon,
     dir  |-> btree.file.dir]

\* a call of an active transaction that writes, with its outcome
UndoCall(op, t, out) ==
    /\ calls < MaxUndoOps
    /\ calls' = calls + 1
    /\ txns[t] = "active"
    /\ btree' = out.b
    /\ last' = Call(op, t, 0, Done(out.r))
    /\ history' = IF t \in DOMAIN history THEN history ELSE MapPut(history, t, Start)
    /\ UNCHANGED <<file, txns, commit, live, table>>
    /\ UNCHANGED tasks

UndoInsert(t, key) == UndoCall("insert", t, BTreeInsert(btree, t, key))

UndoDelete(t, range) == UndoCall("delete", t, BTreeDelete(btree, t, range))

UndoUpdate(t, range, value) ==
    UndoCall("update", t, BTreeUpdate(btree, t, range, value))

\* commit(txn_id) has left out
UndoCommitted(t, out) ==
    /\ btree' = out.b
    /\ last' = Call("commit", t, 0, out.r)
    /\ txns' = [txns EXCEPT ![t] = IF out.r.status = "Ok"
                                   THEN "committed" ELSE "failed"]

UndoCommit(t, root_done) ==
    /\ calls < MaxUndoOps
    /\ calls' = calls + 1
    /\ txns[t] = "active"
    /\ UndoCommitted(t, BTreeCommit(btree, t, root_done))
    /\ history' = EmptyMap
    /\ UNCHANGED <<file, commit, live, table>>
    /\ UNCHANGED tasks

\* rollback(txn_id)
UndoRollback(t) ==
    /\ calls < MaxUndoOps
    /\ calls' = calls + 1
    /\ txns[t] = "active"
    /\ btree' = BTreeRollback(btree, t)
    /\ last' = Call("rollback", t, 0, Ok(0))
    /\ txns' = [txns EXCEPT ![t] = "rolledback"]
    /\ UNCHANGED <<file, commit, live, table, history>>
    /\ UNCHANGED tasks

NextUndo ==
    \/ \E t \in Writers, key \in TxnKeys : UndoInsert(t, key)
    \/ \E t \in Writers, range \in TxnRanges : UndoDelete(t, range)
    \/ \E t \in Writers, range \in TxnRanges, value \in TxnKeys :
           UndoUpdate(t, range, value)
    \/ \E t \in Writers, root_done \in BOOLEAN : UndoCommit(t, root_done)
    \/ \E t \in Writers : UndoRollback(t)

SpecUndo == InitUndo /\ [][NextUndo]_vars

\* C11: after any sequence of insert, delete and update calls at TXID T,
\* failed ones included, followed by rollback(T), a stream at a later TXID
\* yields the keys it yielded before T started, the root id, canonical and
\* as T reads it, is the one before T started, and the canonical directory
\* is unchanged.
C11_RollbackUndoes ==
    (last.op = "rollback" /\ last.txn \in DOMAIN history)
        => /\ BTreeStream(btree, Reader, RangeDefault) = history[last.txn].keys
           /\ btree.root.canon = history[last.txn].root
           /\ LockRead(btree.root, last.txn) = history[last.txn].root
           /\ btree.file.dir = history[last.txn].dir

\* a rollback of a transaction that has replaced the root of a full index
C11_Witness ==
    /\ last.op = "rollback"
    /\ DOMAIN history = {last.txn}
    /\ btree.next > FirstRoot + 1
    /\ history[last.txn].keys = Ok(<<<<1>>, <<2>>, <<3>>>>)

(***************************************************************************)
(* Inserts of keys the index already holds, and deletes.  history holds,   *)
(* after an insert, the key, the stream before the call and the slots that *)
(* held the key before the call; after a delete, the range and the slots   *)
(* before the call.                                                        *)
(***************************************************************************)
MaxAgainKey == 4

AgainKeys == {<<k>> : k \in 1..MaxAgainKey}

AgainRanges ==
    LET starts == {<< >>} \cup {<<In(v)>> : v \in 1..MaxAgainKey}
        ends == {<< >>} \cup {<<Ex(v)>> : v \in 2..MaxAgainKey + 1}
    IN  {BTreeRange(s, e) : s \in starts, e \in ends}

\* the node TXID t reads in block id
NodeOf(b, t, id) == BTGet(b, t, id).r.val[1]

\* every key slot of every node of the file as TXID t sees it
Slots(b, t) ==
    UNION {{[id |-> id, i |-> i, leaf |-> NodeOf(b, t, id).leaf,
             value |-> NodeOf(b, t, id).keys[i].value,
             deleted |-> NodeOf(b, t, id).keys[i].deleted]
               : i \in 1..Len(NodeOf(b, t, id).keys)}
             : id \in FileBlockIds(b.file, t)}

\* the kinds of slot that hold the key
Held(b, t, key) ==
    {[leaf |-> s.leaf, deleted |-> s.deleted] :
        s \in {x \in Slots(b, t) : x.value = key}}

SeqSet(seq) == {seq[i] : i \in 1..Len(seq)}

AgainInsert(key) ==
    /\ TreeInsert(Creator, key)
    /\ history' = <<[key |-> key,
                     before |-> BTreeStream(btree, Creator, RangeDefault),
                     held |-> Held(btree, Creator, key)]>>
    /\ UNCHANGED <<file, txns, commit, calls, table>>
    /\ UNCHANGED tasks

AgainDelete(range) ==
    /\ TreeDelete(Creator, range)
    /\ history' = <<[range |-> range, slots |-> Slots(btree, Creator)]>>
    /\ UNCHANGED <<file, txns, commit, calls, table>>
    /\ UNCHANGED tasks

NextAgain ==
    \/ \E key \in AgainKeys : AgainInsert(key)
    \/ \E range \in AgainRanges : AgainDelete(range)

SpecAgain == InitBTree /\ [][NextAgain]_vars

\* C12: insert is idempotent on the live key set: after insert(T, key) the
\* stream yields the keys it yielded before together with key, each once in
\* ascending order; a key that was live leaves the stream unchanged, a
\* tombstoned key is live again, and exactly one slot, in a leaf or in a
\* non-leaf node, holds the key.
C12_InsertIdempotent ==
    last.op = "insert"
        => /\ last.status = "Ok"
           /\ history[1].before.status = "Ok"
           /\ BTreeStream(btree, Creator, RangeDefault)
                 = Ok(Ascending(SeqSet(history[1].before.val[1])
                                    \cup {history[1].key}))
           /\ history[1].key \in SeqSet(history[1].before.val[1])
                 => BTreeStream(btree, Creator, RangeDefault) = history[1].before
           /\ \A s \in Slots(btree, Creator) :
                 s.value = history[1].key => ~s.deleted
           /\ Cardinality({s \in Slots(btree, Creator) :
                              s.value = history[1].key}) = 1

\* an insert of a key that a non-leaf node held with a tombstone
C12_Witness ==
    /\ last.op = "insert"
    /\ history[1].held = {[leaf |-> FALSE, deleted |-> TRUE]}
    /\ Len(history[1].before.val[1]) = MaxAgainKey - 1

\* C13: delete(T, range) tombstones every key inside the range in every
\* node, leaf or non-leaf, so that a later stream at T yields no key inside
\* the range, and leaves the slots of the keys outside the range, their
\* deleted flags included, as they were.
C13_DeleteTombstones ==
    last.op = "delete"
        => /\ last.status = "Ok"
           /\ \A s \in Slots(btree, Creator) :
                 InRange(s.value, history[1].range) => s.deleted
           /\ {s \in Slots(btree, Creator) : ~InRange(s.value, history[1].range)}
                 = {s \in history[1].slots : ~InRange(s.value, history[1].range)}
           /\ BTreeStream(btree, Creator, RangeDefault).status = "Ok"
           /\ \A k \in SeqSet(BTreeStream(btree, Creator, RangeDefault).val[1]) :
                 ~InRange(k, history[1].range)

\* a delete over live keys of a non-leaf node and of a leaf that leaves a
\* live key and a tombstoned key outside the range
C13_Witness ==
    /\ last.op = "delete"
    /\ \E s \in history[1].slots :
          ~s.leaf /\ ~s.deleted /\ InRange(s.value, history[1].range)
    /\ \E s \in history[1].slots :
          s.leaf /\ ~s.deleted /\ InRange(s.value, history[1].range)
    /\ \E s \in history[1].slots :
          ~s.deleted /\ ~InRange(s.value, history[1].range)
    /\ \E s \in history[1].slots :
          s.deleted /\ ~InRange(s.value, history[1].range)

(***************************************************************************)
(* The index alone under inserts and deletes at one TXID, for the claims   *)
(* about every state of the index.                                         *)
(***************************************************************************)
SliceInsert(key) ==
    /\ btree' = BTreeInsert(btree, Creator, key).b
    /\ UNCHANGED <<file, txns, commit, last, history, calls, live, table>>
    /\ UNCHANGED tasks

SliceDelete(range) ==
    /\ btree' = BTreeDelete(btree, Creator, range).b
    /\ UNCHANGED <<file, txns, commit, last, history, calls, live, table>>
    /\ UNCHANGED tasks

NextSlice ==
    \/ \E key \in Keys : SliceInsert(key)
    \/ \E range \in DeleteRanges : SliceDelete(range)

SpecSlice == InitBTree /\ [][NextSlice]_vars

(***************************************************************************)
(* The index under inserts of enough keys to split a non-leaf root, with   *)
(* deletes of a few ranges.                                                *)
(***************************************************************************)
MaxGrowKey == 7

GrowKeys == {<<k>> : k \in 1..MaxGrowKey}

\* the one range deleted: the two keys in the middle
GrowRanges ==
    {BTreeRange(<<In(MaxGrowKey \div 2)>>, <<In((MaxGrowKey \div 2) + 1)>>)}

GrowInsert(key) ==
    /\ btree' = BTreeInsert(btree, Creator, key).b
    /\ UNCHANGED <<file, txns, commit, last, history, calls, live, table>>
    /\ UNCHANGED tasks

GrowDelete(range) ==
    /\ btree' = BTreeDelete(btree, Creator, range).b
    /\ UNCHANGED <<file, txns, commit, last, history, calls, live, table>>
    /\ UNCHANGED tasks

NextGrow ==
    \/ \E key \in GrowKeys : GrowInsert(key)
    \/ \E range \in GrowRanges : GrowDelete(range)

SpecGrow == InitBTree /\ [][NextGrow]_vars

\* two collected streams that end alike, the second with the keys of the
\* first in the opposite order
Mirrored(forward, reverse) ==
    /\ reverse.status = forward.status
    /\ forward.status = "Ok" => reverse.val[1] = Reverse(forward.val[1])

\* C14: in every state of the index and for every range, the reverse stream
\* ends as the forward stream ends, and when they end without error it
\* yields the keys of the forward stream in the opposite order.
C14_ReverseIsReversed ==
    \A range \in Ranges :
        Mirrored(BTreeStream(btree, Creator, range),
                 BTreeStreamReverse(btree, Creator, range))

\* a reverse stream over a root with two keys and live and tombstoned keys
\* in its leaves that yields three keys or more
C14_Witness ==
    /\ ~NodeOf(btree, Creator, LockRead(btree.root, Creator)).leaf
    /\ Len(NodeOf(btree, Creator, LockRead(btree.root, Creator)).keys) = 2
    /\ \E s \in Slots(btree, Creator) : s.deleted
    /\ \E range \in Ranges :
          /\ BTreeStreamReverse(btree, Creator, range).status = "Ok"
          /\ Len(BTreeStreamReverse(btree, Creator, range).val[1]) >= 3
          /\ BTreeStreamReverse(btree, Creator, range)
                # BTreeStreamReverse(btree, Creator, RangeDefault)

\* the keys of the node in block id and of every node below it
RECURSIVE SubtreeKeys(_, _, _)
SubtreeKeys(b, t, id) ==
    {NodeOf(b, t, id).keys[i].value : i \in 1..Len(NodeOf(b, t, id).keys)}
        \cup UNION {SubtreeKeys(b, t, NodeOf(b, t, id).children[j])
                       : j \in 1..Len(NodeOf(b, t, id).children)}

\* Collator::is_sorted over the keys of a node
KeysSorted(keys) ==
    \A i \in 1..(Len(keys) - 1) :
        Compare(keys[i].value, keys[i + 1].value) # "Greater"

\* key i of a non-leaf node lies strictly between the subtrees beside it
Separates(b, t, node, i) ==
    /\ \A k \in SubtreeKeys(b, t, node.children[i]) :
          Compare(k, node.keys[i].value) = "Less"
    /\ \A k \in SubtreeKeys(b, t, node.children[i + 1]) :
          Compare(k, node.keys[i].value) = "Greater"

\* a node as C15 has it
Ordered(b, t, node) ==
    /\ KeysSorted(node.keys)
    /\ ~node.leaf
          => /\ Len(node.children) = Len(node.keys) + 1
             /\ \A i \in 1..Len(node.keys) : Separates(b, t, node, i)

\* C15: after every sequence of inserts and deletes, the keys of every node
\* are sorted, every non-leaf node has one child more than it has keys, and
\* every key of a non-leaf node is strictly greater than every key of the
\* subtree before it and strictly less than every key of the subtree after.
C15_NodesOrdered ==
    \A id \in FileBlockIds(btree.file, Creator) :
        Ordered(btree, Creator, NodeOf(btree, Creator, id))

\* the root and the non-leaf nodes other than the root
RootId(b, t) == LockRead(b.root, t)

Inner(b, t) ==
    {id \in FileBlockIds(b.file, t) \ {RootId(b, t)} : ~NodeOf(b, t, id).leaf}

\* three levels of nodes, with a tombstone in a non-leaf node and in a leaf
C15_Witness ==
    /\ Inner(btree, Creator) # {}
    /\ \E s \in Slots(btree, Creator) : s.deleted /\ ~s.leaf
    /\ \E s \in Slots(btree, Creator) : s.deleted /\ s.leaf

\* num::integer::div_ceil
DivCeil(a, b) == (a + b - 1) \div b

\* a node as C16 has it
Sized(b, t, id, node) ==
    /\ node.leaf => Len(node.children) = 0
    /\ id # RootId(b, t) => Len(node.keys) >= 1
    /\ (id # RootId(b, t) /\ ~node.leaf)
          => /\ Len(node.children) >= DivCeil(b.order, 2)
             /\ Len(node.children) <= 2 * b.order
    /\ (id = RootId(b, t) /\ ~node.leaf)
          => /\ Len(node.children) >= 2
             /\ Len(node.children) <= 2 * b.order

\* C16: after every sequence of inserts into an index of order m, every
\* non-leaf node other than the root has between ceil(m / 2) and 2m
\* children, every leaf has none, every node other than the root has a key,
\* and a root that is not a leaf has between 2 and 2m children.
C16_NodesSized ==
    \A id \in FileBlockIds(btree.file, Creator) :
        Sized(btree, Creator, id, NodeOf(btree, Creator, id))

\* a root split into two non-leaf nodes, no key deleted
C16_Witness ==
    /\ Cardinality(Inner(btree, Creator)) = 2
    /\ Len(NodeOf(btree, Creator, RootId(btree, Creator)).children) = 2
    /\ \A s \in Slots(btree, Creator) : ~s.deleted
    /\ \A id \in FileBlockIds(btree.file, Creator) :
          ~NodeOf(btree, Creator, id).rebalance

(***************************************************************************)
(* TableIndex: a primary Index and one auxiliary Index, each a BTreeFile   *)
(* in a file of its own.  The primary schema has the key column "a" and    *)
(* the value columns "b" and "c"; the auxiliary index by_b has the key     *)
(* column "b" and, as values, the primary key columns it lacks.            *)
(***************************************************************************)
PrimaryKey == <<"a">>

PrimaryValues == <<"b", "c">>

PrimaryColumns == PrimaryKey \o PrimaryValues

\* TableIndex::create_index: the named key, then the rest of the primary key
AuxColumns == <<"b", "a">>

\* the maximum length declared for each column, none with an inherent size
ColumnMaxLen == 600

\* IndexSchema::values_from_row
ValuesFromRow(columns, row) == [i \in 1..Len(columns) |-> row[columns[i]]]

\* IndexSchema::row_from_values
RowFromValues(columns, values) ==
    [c \in {columns[i] : i \in 1..Len(columns)} |->
        values[CHOOSE i \in 1..Len(columns) : columns[i] = c]]

\* IndexSchema::row_from_key_values
RowFromKeyValues(key, values) == RowFromValues(PrimaryColumns, key \o values)

\* TableIndex::create
TableCreate(t) ==
    [primary |-> BTreeCreate(t, FirstRoot,
                             KeySizeOf([i \in 1..Len(PrimaryColumns) |-> ColumnMaxLen])),
     aux     |-> BTreeCreate(t, FirstRoot,
                             KeySizeOf([i \in 1..Len(AuxColumns) |-> ColumnMaxLen]))]

\* a call on one index of the table, as a call on the table
OnPrimary(tb, out) == [tb |-> [tb EXCEPT !.primary = out.b], r |-> Done(out.r)]

OnAux(tb, out) == [tb |-> [tb EXCEPT !.aux = out.b], r |-> Done(out.r)]

\* rows.try_next()
TryNext(rows) ==
    IF rows.status # "Ok" THEN rows
    ELSE IF rows.val[1] = << >> THEN Ok(<< >>)
    ELSE Ok(<<rows.val[1][1]>>)

\* Index::get: the first row stream(key.into()) yields, if any
IndexGet(b, t, key) == TryNext(BTreeStream(b, t, RangeFromKey(key)))

\* Index::insert
IndexInsert(b, t, columns, row) == BTreeInsert(b, t, ValuesFromRow(columns, row))

\* Index::delete_row
IndexDeleteRow(b, t, columns, row) ==
    BTreeDelete(b, t, RangeFromKey(ValuesFromRow(columns, row)))

\* TableIndex::delete_row, line 577: the primary index
DeleteFromPrimary(first, t, row) ==
    IF first.r.status # "Ok"
    THEN first
    ELSE OnPrimary(first.tb,
                   IndexDeleteRow(first.tb.primary, t, PrimaryColumns, row))

\* TableIndex::delete_row: the auxiliary index, then the primary
TableDeleteRow(tb, t, row) ==
    DeleteFromPrimary(OnAux(tb, IndexDeleteRow(tb.aux, t, AuxColumns, row)), t, row)

\* upsert, lines 519-523: the row into the auxiliary index
InsertIntoAux(first, t, row) ==
    IF first.r.status # "Ok"
    THEN first
    ELSE OnAux(first.tb, IndexInsert(first.tb.aux, t, AuxColumns, row))

\* upsert, lines 515-518: the row into the primary index
InsertRow(cleared, t, row) ==
    IF cleared.r.status # "Ok"
    THEN cleared
    ELSE InsertIntoAux(
             OnPrimary(cleared.tb,
                       IndexInsert(cleared.tb.primary, t, PrimaryColumns, row)),
             t, row)

\* upsert that does not delete the row it has found
DeleteFound_KeepsRow(tb, t, got) ==
    IF got.status # "Ok" THEN [tb |-> tb, r |-> got] ELSE [tb |-> tb, r |-> Ok(0)]

\* upsert, lines 510-513: delete the row under the key, if there is one
DeleteFound(tb, t, got) ==
    IF got.status # "Ok" THEN [tb |-> tb, r |-> got]
    ELSE IF got.val[1] = << >> THEN [tb |-> tb, r |-> Ok(0)]
    ELSE TableDeleteRow(tb, t, RowFromValues(PrimaryColumns, got.val[1][1]))

\* TableIndex::upsert
TableUpsert(tb, t, key, values) ==
    InsertRow(DeleteFound(tb, t, IndexGet(tb.primary, t, key)), t,
              RowFromKeyValues(key, values))

\* insert that does not look at the row get has found
InsertUnlessFound_Always(tb, t, key, values, got) ==
    IF got.status # "Ok" THEN [tb |-> tb, r |-> got]
    ELSE TableUpsert(tb, t, key, values)

\* insert, lines 493-501, with the row get has found
InsertUnlessFound(tb, t, key, values, got) ==
    IF got.status # "Ok" THEN [tb |-> tb, r |-> got]
    ELSE IF got.val[1] # << >> THEN [tb |-> tb, r |-> Err("BadRequest")]
    ELSE TableUpsert(tb, t, key, values)

\* TableIndex::insert
TableInsert(tb, t, key, values) ==
    InsertUnlessFound(tb, t, key, values, IndexGet(tb.primary, t, key))

\* delete, lines 562-564: the auxiliary index
DeleteAux(first, t) ==
    IF first.r.status # "Ok"
    THEN first
    ELSE OnAux(first.tb, BTreeDelete(first.tb.aux, t, RangeDefault))

\* TableInstance::delete for TableIndex
TableDelete(tb, t) ==
    DeleteAux(OnPrimary(tb, BTreeDelete(tb.primary, t, RangeDefault)), t)

\* update_row that extends the row with nothing
RowExtend_Nothing(row, update) == row

\* Row::extend
RowExtend(row, update) ==
    [c \in DOMAIN row |-> IF c \in DOMAIN update THEN update[c] ELSE row[c]]

\* update_row, lines 890-892: insert once delete_row has returned
InsertUpdated(gone, t, updated_row) ==
    IF gone.r.status # "Ok"
    THEN gone
    ELSE TableInsert(gone.tb, t, ValuesFromRow(PrimaryKey, updated_row),
                     ValuesFromRow(PrimaryValues, updated_row))

\* TableIndex::update_row
TableUpdateRow(tb, t, row, update) ==
    InsertUpdated(TableDeleteRow(tb, t, row), t, RowExtend(row, update))

\* TableIndex::update over the rows of the copy streamed at the start
RECURSIVE TableUpdateRows(_, _, _, _)
RECURSIVE TableUpdateRest(_, _, _, _)
TableUpdateRows(tb, t, rows, update) ==
    IF rows = << >>
    THEN [tb |-> tb, r |-> Ok(0)]
    ELSE TableUpdateRest(
             TableUpdateRow(tb, t, RowFromValues(PrimaryColumns, rows[1]), update),
             t, Tail(rows), update)

TableUpdateRest(done, t, rows, update) ==
    IF done.r.status # "Ok"
    THEN done
    ELSE TableUpdateRows(done.tb, t, rows, update)

\* update, lines 876-881, over the rows streamed
TableUpdateStreamed(tb, t, rows, update) ==
    IF rows.status # "Ok"
    THEN [tb |-> tb, r |-> rows]
    ELSE TableUpdateRows(tb, t, rows.val[1], update)

\* TableInstance::update for TableIndex
TableUpdate(tb, t, update) ==
    IF \E i \in 1..Len(PrimaryKey) : PrimaryKey[i] \in DOMAIN update
    THEN [tb |-> tb, r |-> Err("BadRequest")]
    ELSE TableUpdateStreamed(tb, t, BTreeStream(tb.primary, t, RangeDefault),
                             update)

(***************************************************************************)
(* A table used at one TXID, the TXID that created it.  history records    *)
(* the calls that failed.                                                  *)
(***************************************************************************)
MaxVal == 2

MaxRowOps == 3

Vals == 1..MaxVal

TableKeys == {<<a>> : a \in Vals}

TableValues == {<<b, c>> : b \in Vals, c \in Vals}

Rows == [{PrimaryColumns[i] : i \in 1..Len(PrimaryColumns)} -> Vals]

\* the partial rows handed to update
Updates ==
    UNION {[S -> Vals] : S \in SUBSET {PrimaryColumns[i] : i \in 1..Len(PrimaryColumns)}}

InitTable ==
    /\ table = TableCreate(Creator)
    /\ btree = EmptyMap
    /\ live = EmptyMap
    /\ file = FileNew
    /\ txns = [t \in TxnIds |-> "active"]
    /\ commit = Idle
    /\ last = NoCall
    /\ history = << >>
    /\ calls = 0
    /\ tasks = << >>

\* one call on the table at the TXID that created it
TableCall(op, out) ==
    /\ calls < MaxRowOps
    /\ calls' = calls + 1
    /\ table' = out.tb
    /\ last' = Call(op, Creator, 0, Done(out.r))
    /\ history' = IF out.r.status = "Ok"
                  THEN history
                  ELSE Append(history, [txn |-> Creator, val |-> out.r.status])
    /\ UNCHANGED <<file, txns, commit, btree, live>>
    /\ UNCHANGED tasks

RowInsert(key, values) ==
    TableCall("insert", TableInsert(table, Creator, key, values))

RowUpsert(key, values) ==
    TableCall("upsert", TableUpsert(table, Creator, key, values))

RowDelete(row) ==
    TableCall("delete_row", TableDeleteRow(table, Creator, row))

RowsDelete ==
    TableCall("delete", TableDelete(table, Creator))

RowsUpdate(update) ==
    TableCall("update", TableUpdate(table, Creator, update))

NextTable ==
    \/ \E key \in TableKeys, values \in TableValues : RowInsert(key, values)
    \/ \E key \in TableKeys, values \in TableValues : RowUpsert(key, values)
    \/ \E row \in Rows : RowDelete(row)
    \/ RowsDelete
    \/ \E update \in Updates : RowsUpdate(update)

SpecTable == InitTable /\ [][NextTable]_vars

\* the rows of the primary index projected on the columns of the auxiliary
AuxOf(values) == ValuesFromRow(AuxColumns, RowFromValues(PrimaryColumns, values))

\* the rows streamed from the two indexes match one to one
Matching(primary, aux) ==
    /\ primary.status = "Ok"
    /\ aux.status = "Ok"
    /\ \A i \in 1..Len(primary.val[1]) :
           Cardinality({j \in 1..Len(aux.val[1]) :
               aux.val[1][j] = AuxOf(primary.val[1][i])}) = 1
    /\ \A j \in 1..Len(aux.val[1]) :
           \E i \in 1..Len(primary.val[1]) :
               aux.val[1][j] = AuxOf(primary.val[1][i])

\* the two indexes hold the same rows
Consistent(tb, t) ==
    Matching(BTreeStream(tb.primary, t, RangeDefault),
             BTreeStream(tb.aux, t, RangeDefault))

\* C4: after every sequence of successful insert, upsert, delete_row, delete
\* and update calls at a TXID, each row of the primary index has exactly one
\* row with the same column values in the auxiliary index, and the auxiliary
\* index has no live row without a matching primary row.
C4_IndexesAgree == history = << >> => Consistent(table, Creator)

\* the rows of the primary index with the key, and the rows of the
\* auxiliary index that carry it
PrimaryFor(tb, t, key) ==
    {i \in 1..Len(BTreeStream(tb.primary, t, RangeDefault).val[1]) :
        ValuesFromRow(PrimaryKey,
            RowFromValues(PrimaryColumns,
                BTreeStream(tb.primary, t, RangeDefault).val[1][i])) = key}

AuxFor(tb, t, key) ==
    {i \in 1..Len(BTreeStream(tb.aux, t, RangeDefault).val[1]) :
        ValuesFromRow(PrimaryKey,
            RowFromValues(AuxColumns,
                BTreeStream(tb.aux, t, RangeDefault).val[1][i])) = key}

\* the table after upsert(key, values) has returned Ok
Upserted(tb, t, key, values) ==
    /\ IndexGet(tb.primary, t, key) = Ok(<<key \o values>>)
    /\ Cardinality(PrimaryFor(tb, t, key)) = 1
    /\ Cardinality(AuxFor(tb, t, key)) = 1
    /\ \E i \in AuxFor(tb, t, key) :
          BTreeStream(tb.aux, t, RangeDefault).val[1][i]
             = AuxOf(key \o values)

\* C17: upsert replaces: after upsert(key, values), whatever row the key
\* had before, a second upsert of other values included, get(key) returns
\* the row of values, and the primary index and the auxiliary index each
\* hold exactly one live row for the key.
C17_UpsertReplaces ==
    [][\A key \in TableKeys, values \in TableValues :
          RowUpsert(key, values)
             => /\ last'.status = "Ok"
                /\ Upserted(table', Creator, key, values)]_vars

\* every key slot of the primary index
PrimarySlots == Slots(table.primary, Creator)

\* an upsert, as the second call, over the live row another call has stored
\* under the key with other values
C17_Witness ==
    /\ last.op = "upsert"
    /\ calls = 2
    /\ history = << >>
    /\ \E s \in PrimarySlots : \E x \in PrimarySlots :
          /\ s.deleted /\ ~x.deleted
          /\ s.value[1] = x.value[1]
          /\ s.value # x.value

\* C18: insert fails with BadRequest when a live row with the key is
\* visible, and then leaves the primary and the auxiliary index as they
\* were; otherwise it has the effect of upsert.
C18_InsertRefusesLiveKey ==
    [][\A key \in TableKeys, values \in TableValues :
          RowInsert(key, values)
             => IF PrimaryFor(table, Creator, key) # {}
                THEN /\ last'.status = "BadRequest"
                     /\ table' = table
                ELSE /\ last'.status = "Ok"
                     /\ table' = TableUpsert(table, Creator, key, values).tb
                     /\ Upserted(table', Creator, key, values)]_vars

\* an insert refused over a live row, after a call that deleted a row
C18_Witness ==
    /\ last.op = "insert"
    /\ last.status = "BadRequest"
    /\ \E s \in PrimarySlots : s.deleted
    /\ \E s \in PrimarySlots : ~s.deleted

\* the rows of the table
RowsOf(tb, t) ==
    {RowFromValues(PrimaryColumns, values) :
        values \in SeqSet(BTreeStream(tb.primary, t, RangeDefault).val[1])}

\* row with the columns of update set and every other column kept
UpdatedTo(row, update, new) ==
    \A c \in DOMAIN row :
        new[c] = IF c \in DOMAIN update THEN update[c] ELSE row[c]

SlotOf(f, id) == IF id \in DOMAIN f.cache THEN <<f.cache[id]>> ELSE << >>

\* create_block has failed and changed neither the listing any TXID sees
\* nor the cache slot of the id
Refused(status, id) ==
    /\ last'.status = status
    /\ \A u \in TxnIds : FileBlockIds(file', u) = FileBlockIds(file, u)
    /\ SlotOf(file', id) = SlotOf(file, id)

\* create_block has added the id to the listing of t only
Added(t, id) ==
    /\ last'.status = "Ok"
    /\ FileBlockIds(file', t) = FileBlockIds(file, t) \cup {id}
    /\ \A u \in TxnIds \ {t} : FileBlockIds(file', u) = FileBlockIds(file, u)

MaxReads == 1

\* a slot without a pending value
CacheClean(cache, id) == id \in DOMAIN cache /\ DOMAIN cache[id].pend = {}

\* the eviction of a slot
CacheEvict(cache, id) == MapDel(cache, id)

Evict(id) ==
    /\ Running /\ CacheFree
    /\ CacheClean(file.cache, id)
    /\ file' = [file EXCEPT !.cache = CacheEvict(file.cache, id)]
    /\ UNCHANGED <<txns, commit, last, history, calls, btree, live, table>>
    /\ UNCHANGED tasks

\* File::get_block after the writers' calls; history keeps the cached ids
\* the call found
ReadBack(t, id) ==
    /\ calls >= MaxCalls /\ calls < MaxCalls + MaxReads
    /\ calls' = calls + 1
    /\ UNCHANGED <<btree, live, table>>
    /\ Running
    /\ LET out == FileLockBlock(file, t, id)
       IN  /\ file' = out.f
           /\ last' = Call("get_block", t, id, out.r)
    /\ history' = Append(history, [txn |-> t, val |-> DOMAIN file.cache])
    /\ UNCHANGED <<txns, commit>>
    /\ UNCHANGED tasks

NextEvict ==
    \/ NextFile
    \/ \E id \in BlockIds : Evict(id)
    \/ \E t \in TxnIds, id \in BlockIds : ReadBack(t, id)

SpecEvict == InitFile /\ [][NextEvict]_vars

\* the resolution of get_block(t, id) on the file f, step by step
Resolved(f, t, id) ==
    IF id \in DOMAIN f.cache
    THEN Ok(LockRead(f.cache[id], t))
    ELSE IF id \notin LockRead(f.listing, t)
    THEN Err("NotFound")
    ELSE IF t \in DOMAIN f.pending /\ id \in DOMAIN f.pending[t]
    THEN Ok(Deserialize(f.pending[t][id]))
    ELSE IF id \in DOMAIN f.dir
    THEN Ok(Deserialize(f.dir[id]))
    ELSE Err("Internal")

C22_FinalizeIdempotent ==
    [][\A t \in TxnIds :
          Finalize(t) =>
             /\ last'.status = "Ok"
             /\ FileFinalize(file', t) = [f |-> file', r |-> Ok(t)]
             /\ FileRollback(FileRollback(file, t), t) = FileRollback(file, t)]_vars

(***************************************************************************)
(* BTreeInstance::len                                                      *)
(***************************************************************************)
\* slice.fold(0, |len, _| len + 1) over the keys a stream yields
Counted(slice) == IF slice.status = "Ok" THEN Ok(Len(slice.val[1])) ELSE slice

\* BTreeInstance::len(txn_id, range)
BTreeLen(b, t, range) == Counted(BTreeStream(b, t, range))

\* the two halves of a range cut at a key inside it
SplitsOf(range) ==
    {<<BTreeRange(range.start, <<Ex(p)>>), BTreeRange(<<In(p)>>, range.end)>> :
        p \in {k \in 1..MaxKey : InRange(<<k>>, range)}}

\* len over a range and over its two halves
Additive(n, a, b) ==
    /\ a.status = "Ok" /\ b.status = "Ok"
    /\ n.val[1] = a.val[1] + b.val[1]

\* C23: for every range R, len(T, R) is the number of live keys inside R,
\* and for every cut of R into two disjoint ranges R1 and R2 that cover it,
\* len(T, R) = len(T, R1) + len(T, R2).
C23_LenAdditive ==
    \A range \in Ranges :
        /\ BTreeLen(btree, Creator, range) = Ok(Len(LiveIn(Creator, range)))
        /\ \A halves \in SplitsOf(range) :
              Additive(BTreeLen(btree, Creator, range),
                       BTreeLen(btree, Creator, halves[1]),
                       BTreeLen(btree, Creator, halves[2]))

\* C23 for the ranges whose start does not lie above their end
C23_ProperRanges ==
    \A range \in {x \in Ranges : Proper(x)} :
        /\ BTreeLen(btree, Creator, range) = Ok(Len(LiveIn(Creator, range)))
        /\ \A halves \in SplitsOf(range) :
              Additive(BTreeLen(btree, Creator, range),
                       BTreeLen(btree, Creator, halves[1]),
                       BTreeLen(btree, Creator, halves[2]))

(***************************************************************************)
(* BTreeInstance::insert_from: the inserts of the source run as tasks of   *)
(* one try_buffer_unordered(2 * order), all at one TXID.  A task runs      *)
(* from one await to the next in a step; it waits at a block read while    *)
(* another task holds the write guard of the block, and at an upgrade      *)
(* while another task holds it (the read and write rules of the lock       *)
(* within one TXID).  A read guard gives the current value of the block.   *)
(* The index is filled by single inserts before the call.                  *)
(***************************************************************************)
MaxBulkKey == 6
MaxBulkSeeds == 5
MaxTasks == 2

BulkKeys == {<<k>> : k \in 1..MaxBulkKey}

SeedKeys == {<<k>> : k \in 1..(MaxBulkKey - 1)}

\* the one range deleted: the key in the middle
BulkRanges ==
    {BTreeRange(<<In(MaxBulkKey \div 2)>>, <<In(MaxBulkKey \div 2)>>)}

\* the sources of insert_from: MaxTasks keys, the least first
Sources ==
    {src \in [1..MaxTasks -> BulkKeys] :
        \A p \in 1..(MaxTasks - 1) : Compare(src[p], src[p + 1]) # "Greater"}

\* the future of one insert(txn_id, key), not yet polled
TaskNew(key) ==
    [pc |-> "start", key |-> key, node |-> 0, i |-> 0, child |-> 0,
     after |-> "node", root_w |-> FALSE, wr |-> {}]

\* the future has returned Ok(()): its guards are dropped
TaskDone(task) == [task EXCEPT !.pc = "done", !.root_w = FALSE, !.wr = {}]

\* the future has panicked
TaskPanic(b, task) ==
    [b |-> b, task |-> [task EXCEPT !.pc = "panic", !.root_w = FALSE, !.wr = {}]]

\* the future has returned an error
TaskFailed(b, task, status) ==
    [b |-> b, task |-> [task EXCEPT !.pc = status, !.root_w = FALSE, !.wr = {}]]

\* another task holds the write guard of the block id
WriteHeld(p, id) == \E q \in (DOMAIN tasks.run) \ {p} : id \in tasks.run[q].wr

\* another task holds the write guard of the root lock
RootHeld(p) == \E q \in (DOMAIN tasks.run) \ {p} : tasks.run[q].root_w

\* _insert, lines 395-416, from the node read to the next await
TaskEnterAt(b, task, id, node, i) ==
    IF i < Len(node.keys) /\ Compare(node.keys[i + 1].value, task.key) = "Equal"
    THEN IF node.keys[i + 1].deleted
         THEN [b |-> b, task |-> [task EXCEPT !.pc = "undelete", !.node = id, !.i = i]]
         ELSE [b |-> b, task |-> TaskDone(task)]
    ELSE IF node.leaf
    THEN [b |-> b, task |-> [task EXCEPT !.pc = "leaf", !.node = id, !.i = i]]
    ELSE [b |-> b, task |-> [task EXCEPT !.pc = "descend", !.node = id, !.i = i,
                                         !.child = node.children[i + 1]]]

\* _insert of the block got, line 395
TaskEnter(got, task, id) ==
    IF got.r.status # "Ok"
    THEN TaskFailed(got.b, task, got.r.status)
    ELSE TaskEnterAt(got.b, task, id, got.r.val[1],
                     BisectLeft(got.r.val[1].keys, task.key))

\* insert, lines 612-622 and 644: the root is full, or _insert of the root
TaskStarted(got, task, root_id) ==
    IF got.r.status # "Ok"
    THEN TaskFailed(got.b, task, got.r.status)
    ELSE IF Len(got.r.val[1].keys) = (2 * got.b.order) - 1
    THEN [b |-> got.b, task |-> [task EXCEPT !.pc = "splitroot"]]
    ELSE TaskEnter(got, task, root_id)

\* the write through the guard has left put
TaskWrote(put, task) ==
    IF put.r.status # "Ok"
    THEN TaskFailed(put.b, task, put.r.status)
    ELSE [b |-> put.b, task |-> TaskDone(task)]

\* _insert, lines 407-409: node.keys.insert(i, key) after the upgrade, with
\* the index found before it; Vec::insert panics on an index past the end
TaskLeafAt(b, task, node) ==
    IF task.i > Len(node.keys)
    THEN TaskPanic(b, task)
    ELSE TaskWrote(BTWrite(b, Creator, task.node,
                     [node EXCEPT !.keys = VecInsert(node.keys, task.i,
                                                     NodeKey(task.key))]),
                   task)

\* _insert, lines 398-401 and 428-431: node.keys[i].deleted = false after
\* the upgrade, with the index found before it
TaskUndeleteAt(b, task, node) ==
    IF task.i >= Len(node.keys)
    THEN TaskPanic(b, task)
    ELSE TaskWrote(BTWrite(b, Creator, task.node,
                     [node EXCEPT !.keys[task.i + 1].deleted = FALSE]),
                   task)

\* _insert, lines 413-420 and 442: the child read is full, or _insert of it
TaskDescended_NoSplit(cgot, task) ==
    IF cgot.r.status # "Ok"
    THEN TaskFailed(cgot.b, task, cgot.r.status)
    ELSE TaskEnter(cgot, task, task.child)

TaskDescended(cgot, task) ==
    IF cgot.r.status # "Ok"
    THEN TaskFailed(cgot.b, task, cgot.r.status)
    ELSE IF Len(cgot.r.val[1].keys) = (2 * cgot.b.order) - 1
    THEN [b |-> cgot.b, task |-> [task EXCEPT !.pc = "upnode"]]
    ELSE TaskEnter(cgot, task, task.child)

\* split_child, lines 469-479: Vec::remove and Vec::drain panic out of range
SplitPanics(child, order) ==
    \/ Len(child.keys) < order
    \/ ~child.leaf /\ Len(child.children) < order

\* _insert, lines 423-440: the key against the median now in the node
TaskBeside(b, task, node, c) ==
    IF c = "Less"
    THEN TaskEnter(BTGet(b, Creator, task.child), task, task.child)
    ELSE IF c = "Equal"
    THEN IF node.keys[task.i + 1].deleted
         THEN [b |-> b, task |-> [task EXCEPT !.pc = "undelete"]]
         ELSE [b |-> b, task |-> TaskDone(task)]
    ELSE [b |-> b, task |-> [task EXCEPT !.pc = "beside",
                                         !.child = node.children[task.i + 2]]]

\* split_child has returned the node downgraded: insert line 643, or
\* _insert line 423
TaskSplitDone(sp, task) ==
    IF sp.r.status # "Ok"
    THEN TaskFailed(sp.b, task, sp.r.status)
    ELSE IF task.after = "root"
    THEN TaskEnter(BTGet(sp.b, Creator, task.node), [task EXCEPT !.after = "node"],
                   task.node)
    ELSE TaskBeside(sp.b, task, sp.r.val[1],
                    Compare(task.key, sp.r.val[1].keys[task.i + 1].value))

\* split_child of the child at the index found before the upgrade
TaskSplitAt(b, task, node) ==
    IF task.i >= Len(node.children)
    THEN TaskPanic(b, task)
    ELSE IF SplitPanics(NodeOf(b, Creator, node.children[task.i + 1]), b.order)
    THEN TaskPanic(b, task)
    ELSE TaskSplitDone(SplitChild(b, Creator, task.child, task.node, task.i),
                       [task EXCEPT !.wr = task.wr \ {task.node}])

\* insert, lines 623-640: the new root is made and upgraded
TaskRootMade(b, made, task, old_root_id, new_root_id) ==
    IF made.r.status # "Ok"
    THEN TaskFailed(WithFile(b, made.f), task, made.r.status)
    ELSE [b |-> WithFile(b, made.f),
          task |-> [task EXCEPT !.pc = "split", !.after = "root",
                                !.node = new_root_id, !.i = 0,
                                !.child = old_root_id, !.root_w = TRUE,
                                !.wr = task.wr \cup {new_root_id}]]

\* insert, lines 623-633: the root lock upgraded, the id of the new root
\* stored in it, the block of the new root created
TaskNewRoot(b, task, old_root_id, new_root_id) ==
    TaskRootMade(NewRoot(b, Creator, new_root_id),
        FileCreateBlock(NewRoot(b, Creator, new_root_id).file, Creator, new_root_id,
            [NodeNew(FALSE, << >>) EXCEPT !.children = <<old_root_id>>]),
        task, old_root_id, new_root_id)

\* a step of task p has left out
TaskStep(p, out) ==
    /\ btree' = out.b
    /\ tasks' = [tasks EXCEPT !.run[p] = out.task,
                              !.ret = IF out.task.pc \in {"start", "splitroot",
                                             "undelete", "leaf", "descend",
                                             "upnode", "split", "beside"}
                                      THEN tasks.ret
                                      ELSE out.task.pc]
    /\ UNCHANGED <<file, txns, commit, last, history, calls, live, table>>

\* task p is at pc, and no task has panicked
TaskAt(p, pc) ==
    /\ tasks # << >>
    /\ p \in DOMAIN tasks.run
    /\ tasks.run[p].pc = pc
    /\ \A q \in DOMAIN tasks.run : tasks.run[q].pc # "panic"

\* insert, lines 612-613: the root id and the root block are read
TaskStart(p) ==
    /\ TaskAt(p, "start")
    /\ ~RootHeld(p)
    /\ ~WriteHeld(p, RootId(btree, Creator))
    /\ TaskStep(p, TaskStarted(BTGet(btree, Creator, RootId(btree, Creator)),
                               tasks.run[p], RootId(btree, Creator)))

\* insert, lines 623-640
TaskSplitRoot(p) ==
    /\ TaskAt(p, "splitroot")
    /\ ~RootHeld(p)
    /\ TaskStep(p, TaskNewRoot(btree, tasks.run[p], RootId(btree, Creator),
                               UniqueId(btree)))

\* _insert, lines 407-409
TaskLeaf(p) ==
    /\ TaskAt(p, "leaf")
    /\ ~WriteHeld(p, tasks.run[p].node)
    /\ TaskStep(p, TaskLeafAt(btree, tasks.run[p],
                              NodeOf(btree, Creator, tasks.run[p].node)))

\* _insert, lines 398-401 and 428-431
TaskUndelete(p) ==
    /\ TaskAt(p, "undelete")
    /\ ~WriteHeld(p, tasks.run[p].node)
    /\ TaskStep(p, TaskUndeleteAt(btree, tasks.run[p],
                                  NodeOf(btree, Creator, tasks.run[p].node)))

\* _insert, lines 413-418
TaskDescend(p) ==
    /\ TaskAt(p, "descend")
    /\ ~WriteHeld(p, tasks.run[p].child)
    /\ TaskStep(p, TaskDescended(BTGet(btree, Creator, tasks.run[p].child),
                                 tasks.run[p]))

\* _insert, line 420: node.upgrade()
TaskUpgrade(p) ==
    /\ TaskAt(p, "upnode")
    /\ ~WriteHeld(p, tasks.run[p].node)
    /\ TaskStep(p, [b |-> btree,
                    task |-> [tasks.run[p] EXCEPT
                                 !.pc = "split",
                                 !.wr = tasks.run[p].wr \cup {tasks.run[p].node}]])

\* split_child, lines 454-487, and what follows it up to the next await
TaskSplit(p) ==
    /\ TaskAt(p, "split")
    /\ \A j \in 1..Len(NodeOf(btree, Creator, tasks.run[p].node).children) :
          j = tasks.run[p].i + 1
             => ~WriteHeld(p, NodeOf(btree, Creator, tasks.run[p].node).children[j])
    /\ TaskStep(p, TaskSplitAt(btree, tasks.run[p],
                               NodeOf(btree, Creator, tasks.run[p].node)))

\* _insert, lines 434-438: the block of the new sibling is read
TaskSibling(p) ==
    /\ TaskAt(p, "beside")
    /\ ~WriteHeld(p, tasks.run[p].child)
    /\ TaskStep(p, TaskEnter(BTGet(btree, Creator, tasks.run[p].child),
                             tasks.run[p], tasks.run[p].child))

\* a single insert before the bulk insert
BulkSeed(key) ==
    /\ tasks = << >>
    /\ last.op # "insert_from"
    /\ Cardinality(LockRead(live, Creator)) < MaxBulkSeeds
    /\ key \notin LockRead(live, Creator)
    /\ TreeInsert(Creator, key)
    /\ UNCHANGED <<file, txns, commit, history, calls, table, tasks>>

\* a delete before the bulk insert
BulkDelete(range) ==
    /\ tasks = << >>
    /\ last.op # "insert_from"
    /\ TreeDelete(Creator, range)
    /\ UNCHANGED <<file, txns, commit, history, calls, table, tasks>>

\* insert_from(txn_id, source) is called
BulkBegin(source) ==
    /\ tasks = << >>
    /\ last.op # "insert_from"
    /\ tasks' = [run |-> [p \in DOMAIN source |-> TaskNew(source[p])],
                 ret |-> "Ok"]
    /\ UNCHANGED <<file, txns, commit, last, history, calls, btree, live, table>>

\* every insert has returned: the fold returns the result of the last one
BulkEnd ==
    /\ tasks # << >>
    /\ \A p \in DOMAIN tasks.run :
          tasks.run[p].pc \notin {"start", "splitroot", "undelete", "leaf",
                                  "descend", "upnode", "split", "beside", "panic"}
    /\ last' = Call("insert_from", Creator, 0,
                    IF tasks.ret = "done" THEN Ok(0) ELSE Err(tasks.ret))
    /\ live' = LiveWrite(Creator, LockRead(live, Creator)
                   \cup {tasks.run[p].key : p \in {q \in DOMAIN tasks.run :
                                                     tasks.run[q].pc = "done"}})
    /\ tasks' = << >>
    /\ UNCHANGED <<file, txns, commit, history, calls, btree, table>>

\* a panic of one insert ends the call
BulkPanic ==
    /\ tasks # << >>
    /\ \E p \in DOMAIN tasks.run : tasks.run[p].pc = "panic"
    /\ last' = Call("insert_from", Creator, 0, Err("Panic"))
    /\ tasks' = << >>
    /\ UNCHANGED <<file, txns, commit, history, calls, btree, live, table>>

NextBulk ==
    \/ \E key \in SeedKeys : BulkSeed(key)
    \/ \E range \in BulkRanges : BulkDelete(range)
    \/ \E source \in Sources : BulkBegin(source)
    \/ \E p \in 1..MaxTasks : TaskStart(p)
    \/ \E p \in 1..MaxTasks : TaskSplitRoot(p)
    \/ \E p \in 1..MaxTasks : TaskLeaf(p)
    \/ \E p \in 1..MaxTasks : TaskUndelete(p)
    \/ \E p \in 1..MaxTasks : TaskDescend(p)
    \/ \E p \in 1..MaxTasks : TaskUpgrade(p)
    \/ \E p \in 1..MaxTasks : TaskSplit(p)
    \/ \E p \in 1..MaxTasks : TaskSibling(p)
    \/ BulkEnd
    \/ BulkPanic

SpecBulk == InitBTree /\ [][NextBulk]_vars

\* C24: once insert_from has returned Ok, whatever the interleaving of its
\* inserts, the stream yields every key inserted and every key that was
\* live before the call exactly once, and the ordering invariants of the
\* nodes hold.
C24_BulkAsSequential ==
    (last.op = "insert_from" /\ last.status = "Ok")
       => /\ BTreeStream(btree, Creator, RangeDefault)
                = Ok(LiveIn(Creator, RangeDefault))
          /\ \A id \in FileBlockIds(btree.file, Creator) :
                Ordered(btree, Creator, NodeOf(btree, Creator, id))

(***************************************************************************)
(* TableIndex::commit: join_all over the commit of the primary index and   *)
(* of each auxiliary index.  The commit of an index runs in two steps,     *)
(* File::commit up to cache.commit (line 230) with the root lock           *)
(* committed beside it, and dir.copy_all (line 232); the steps of the two  *)
(* indexes interleave, and a reader at a later TXID reads in between.      *)
(***************************************************************************)
Indexes == {"primary", "aux"}

\* File::commit, lines 186-230; staged tells whether line 232 is left to run
FileStage(f, t) ==
    LET f1 == CommitListing(f, t)
        M == CommitDrained(f1, t)
        f2 == CommitMutated(f1, t)
    IN  IF M = {}
        THEN [f |-> CommitCache(f2, t), staged |-> FALSE]
        ELSE [f |-> CommitCache(CommitStage(CommitCreateDir(f2, t), t, M), t),
              staged |-> TRUE]

\* rows are written while the TXID is active and no commit is in flight
Writing == tasks = << >> /\ txns[Creator] = "active"

CommitRowInsert(key, values) == Writing /\ RowInsert(key, values)

CommitRowUpsert(key, values) == Writing /\ RowUpsert(key, values)

\* TableIndex::commit, lines 903-907: the commit futures are made
TableCommitBegin ==
    /\ Writing
    /\ tasks' = [run |-> [x \in Indexes |-> "commit"], ret |-> "Ok"]
    /\ txns' = [txns EXCEPT ![Creator] = "committing"]
    /\ UNCHANGED <<file, commit, last, history, calls, btree, live, table>>

\* the commit of index x has run up to line 230 of File::commit
IndexStaged(x, out) ==
    /\ table' = [table EXCEPT ![x].file = out.f,
                              ![x].root = LockCommit(table[x].root, Creator)]
    /\ tasks' = [tasks EXCEPT !.run[x] = IF out.staged THEN "staged" ELSE "done"]
    /\ UNCHANGED <<file, txns, commit, last, history, calls, btree, live>>

IndexStage(x) ==
    /\ tasks # << >>
    /\ tasks.run[x] = "commit"
    /\ IndexStaged(x, FileStage(table[x].file, Creator))

\* File::commit, line 232, of index x
IndexPublish(x) ==
    /\ tasks # << >>
    /\ tasks.run[x] = "staged"
    /\ table' = [table EXCEPT ![x].file = CommitCopyAll(table[x].file, Creator)]
    /\ tasks' = [tasks EXCEPT !.run[x] = "done"]
    /\ UNCHANGED <<file, txns, commit, last, history, calls, btree, live>>

\* line 909: join_all has every commit
TableCommitEnd ==
    /\ tasks # << >>
    /\ \A x \in Indexes : tasks.run[x] = "done"
    /\ tasks' = << >>
    /\ txns' = [txns EXCEPT ![Creator] = "committed"]
    /\ last' = Call("commit", Creator, 0, Ok(Creator))
    /\ UNCHANGED <<file, commit, history, calls, btree, live, table>>

NextTableCommit ==
    \/ \E key \in TableKeys, values \in TableValues : CommitRowInsert(key, values)
    \/ \E key \in TableKeys, values \in TableValues : CommitRowUpsert(key, values)
    \/ TableCommitBegin
    \/ \E x \in Indexes : IndexStage(x)
    \/ \E x \in Indexes : IndexPublish(x)
    \/ TableCommitEnd

SpecTableCommit == InitTable /\ [][NextTableCommit]_vars

\* index x has copied its staged blocks into its canonical directory
Published(x) ==
    /\ tasks.run[x] = "done"
    /\ DOMAIN table[x].file.dir # {}

\* C25: during commit(txid) of a table no index publishes its staged blocks
\* to its canonical directory before every index has finished staging, and
\* no reader at a later TXID sees the rows of the primary index as committed
\* while the auxiliary index shows the rows from before the commit, or the
\* reverse.
C25_CommitAtomic ==
    /\ tasks # << >>
          => \A x \in Indexes :
                Published(x)
                   => \A y \in Indexes : tasks.run[y] \in {"staged", "done"}
    /\ Consistent(table, Reader)

(***************************************************************************)
(* Two TableIndex::insert calls with one key and different values, run as  *)
(* concurrent tasks at one TXID.  A task runs from one await to the next   *)
(* in a step: the get of insert, the get of upsert, delete_row, and the    *)
(* try_join_all of the inserts into the indexes.                           *)
(***************************************************************************)
Racers == 1..2

\* the future of insert(txn_id, key, values), not yet polled
RaceNew(key, values) ==
    [pc |-> "check", key |-> key, values |-> values, row |-> << >>]

\* insert, lines 493-501: the result of get
RaceChecked(task, got) ==
    IF got.status # "Ok" THEN [task EXCEPT !.pc = got.status]
    ELSE IF got.val[1] # << >> THEN [task EXCEPT !.pc = "BadRequest"]
    ELSE [task EXCEPT !.pc = "upsert"]

\* upsert, lines 510-511: the result of get
RaceRechecked(task, got) ==
    IF got.status # "Ok" THEN [task EXCEPT !.pc = got.status]
    ELSE IF got.val[1] = << >> THEN [task EXCEPT !.pc = "write"]
    ELSE [task EXCEPT !.pc = "delete",
                      !.row = RowFromValues(PrimaryColumns, got.val[1][1])]

\* a step of task p on the table has left out, and the task at pc
RaceStep(p, out, pc) ==
    /\ table' = out.tb
    /\ tasks' = [tasks EXCEPT !.run[p].pc = IF out.r.status = "Ok" THEN pc
                                            ELSE out.r.status]
    /\ UNCHANGED <<file, txns, commit, last, history, calls, btree, live>>

\* the two inserts are called; no row with the key is visible
RaceBegin(key, v1, v2) ==
    /\ Writing
    /\ v1 # v2
    /\ IndexGet(table.primary, Creator, key) = Ok(<< >>)
    /\ tasks' = [run |-> <<RaceNew(key, v1), RaceNew(key, v2)>>, ret |-> "Ok"]
    /\ UNCHANGED <<file, txns, commit, last, history, calls, btree, live, table>>

\* insert, line 493
RaceCheck(p) ==
    /\ tasks # << >>
    /\ tasks.run[p].pc = "check"
    /\ tasks' = [tasks EXCEPT !.run[p] =
                    RaceChecked(tasks.run[p],
                                IndexGet(table.primary, Creator, tasks.run[p].key))]
    /\ UNCHANGED <<file, txns, commit, last, history, calls, btree, live, table>>

\* upsert, line 510
RaceRecheck(p) ==
    /\ tasks # << >>
    /\ tasks.run[p].pc = "upsert"
    /\ tasks' = [tasks EXCEPT !.run[p] =
                    RaceRechecked(tasks.run[p],
                                  IndexGet(table.primary, Creator, tasks.run[p].key))]
    /\ UNCHANGED <<file, txns, commit, last, history, calls, btree, live, table>>

\* upsert, line 512
RaceDelete(p) ==
    /\ tasks # << >>
    /\ tasks.run[p].pc = "delete"
    /\ RaceStep(p, TableDeleteRow(table, Creator, tasks.run[p].row), "write")

\* upsert, lines 515-524
RaceWrite(p) ==
    /\ tasks # << >>
    /\ tasks.run[p].pc = "write"
    /\ RaceStep(p, InsertRow([tb |-> table, r |-> Ok(0)], Creator,
                             RowFromKeyValues(tasks.run[p].key,
                                              tasks.run[p].values)),
                "Ok")

NextRace ==
    \/ \E key \in TableKeys, values \in TableValues : CommitRowInsert(key, values)
    \/ \E key \in TableKeys, values \in TableValues : CommitRowUpsert(key, values)
    \/ \E key \in TableKeys, v1 \in TableValues, v2 \in TableValues :
          RaceBegin(key, v1, v2)
    \/ \E p \in Racers : RaceCheck(p)
    \/ \E p \in Racers : RaceRecheck(p)
    \/ \E p \in Racers : RaceDelete(p)
    \/ \E p \in Racers : RaceWrite(p)

SpecRace == InitTable /\ [][NextRace]_vars

\* both inserts have returned
Returned ==
    /\ tasks # << >>
    /\ \A p \in Racers :
          tasks.run[p].pc \notin {"check", "upsert", "delete", "write"}

\* C26: of two concurrent inserts of one key with different values at one
\* TXID, the key absent before, at most one returns Ok and the other
\* returns BadRequest, and the primary and the auxiliary index each hold
\* exactly one live row for the key.
C26_InsertCheckAtomic ==
    Returned
       => /\ Cardinality({p \in Racers : tasks.run[p].pc = "Ok"}) <= 1
          /\ \A p \in Racers : tasks.run[p].pc \in {"Ok", "BadRequest"}
          /\ Cardinality(PrimaryFor(table, Creator, tasks.run[1].key)) = 1
          /\ Cardinality(AuxFor(table, Creator, tasks.run[1].key)) = 1

(***************************************************************************)
(* File::lock_block followed from one await to the next.  The read guard   *)
(* of the cache is a temporary of the scrutinee of the if let at line 138: *)
(* it lives to the end of the whole if-else statement in the editions 2018 *)
(* and 2021 of the language, and to the end of the condition in the        *)
(* edition 2024.  The edition is set by the build, outside the source      *)
(* file, so the call is followed under both.  The write lock of a          *)
(* futures_locks::RwLock is granted when no read guard is alive.           *)
(***************************************************************************)
GuardScopes == {"statement", "condition"}

\* the future of lock_block(txn_id, block_id), not yet polled
LockCallNew(t, id, scope) ==
    [pc |-> "read", txn |-> t, id |-> id, scope |-> scope, held |-> FALSE]

\* line 138: the guard of cache.read().await and the lookup in the cache
LockLooked(task, cache) ==
    IF task.id \in DOMAIN cache
    THEN [task EXCEPT !.pc = "cached", !.held = TRUE]
    ELSE [task EXCEPT !.pc = "listing", !.held = (task.scope = "statement")]

\* lines 140-162: the listing and the blobs on disk
LockFound(task, out) ==
    IF out.r.status = "Ok" THEN [task EXCEPT !.pc = "insert"]
    ELSE [task EXCEPT !.pc = out.r.status]

\* the call returns: its guards are dropped
LockReturn(out) ==
    /\ file' = out.f
    /\ last' = Call("get_block", tasks.run[1].txn, tasks.run[1].id, out.r)
    /\ calls' = calls + 1
    /\ tasks' = << >>
    /\ UNCHANGED <<txns, commit, history, btree, live, table>>

LockAt(pc) == tasks # << >> /\ tasks.run[1].pc = pc

LockMove(task) ==
    /\ tasks' = [tasks EXCEPT !.run[1] = task]
    /\ UNCHANGED <<file, txns, commit, last, history, calls, btree, live, table>>

\* get_block is called while no other call is in flight
LockBegin(t, id, scope) ==
    /\ tasks = << >>
    /\ calls >= MaxCalls /\ calls < MaxCalls + MaxReads
    /\ Running /\ CacheFree
    /\ tasks' = [run |-> <<LockCallNew(t, id, scope)>>, ret |-> "Ok"]
    /\ UNCHANGED <<file, txns, commit, last, history, calls, btree, live, table>>

\* line 138
LockCacheRead ==
    /\ LockAt("read")
    /\ LockMove(LockLooked(tasks.run[1], file.cache))

\* line 139
LockCached ==
    /\ LockAt("cached")
    /\ LockReturn(FileLockBlock(file, tasks.run[1].txn, tasks.run[1].id))

\* lines 140-164
LockListing ==
    /\ LockAt("listing")
    /\ LockMove(LockFound(tasks.run[1],
                          FileLockBlock(file, tasks.run[1].txn, tasks.run[1].id)))

\* lines 165-171: cache.write().await waits for every read guard to drop
LockInsert ==
    /\ LockAt("insert")
    /\ ~tasks.run[1].held
    /\ LockReturn(FileLockBlock(file, tasks.run[1].txn, tasks.run[1].id))

\* lines 144-162, 173: the errors
LockFail ==
    /\ tasks # << >>
    /\ tasks.run[1].pc \in {"NotFound", "Internal"}
    /\ LockReturn(FileLockBlock(file, tasks.run[1].txn, tasks.run[1].id))

LockStep ==
    LockCacheRead \/ LockCached \/ LockListing \/ LockInsert \/ LockFail

\* the calls of a host that keeps running
NextHost ==
    \/ \E t \in TxnIds, id \in BlockIds, d \in Data : CreateBlock(t, id, d)
    \/ \E t \in TxnIds, id \in BlockIds : GetBlock(t, id)
    \/ \E t \in TxnIds, id \in BlockIds : Mutate(t, id)
    \/ \E t \in TxnIds, id \in BlockIds, d \in Data : WriteBlock(t, id, d)
    \/ \E t \in TxnIds : CommitBegin(t)
    \/ CommitDrain
    \/ CommitUnmutated
    \/ CommitTxnDir
    \/ CommitStaging
    \/ CommitCacheStep
    \/ \E id \in BlockIds : CommitCopyStep(id)
    \/ CommitEnd
    \/ CommitCancel
    \/ \E t \in TxnIds : Finalize(t)

NextLock ==
    \/ tasks = << >> /\ NextHost
    \/ \E id \in BlockIds : tasks = << >> /\ Evict(id)
    \/ \E t \in TxnIds, id \in BlockIds, scope \in GuardScopes :
          LockBegin(t, id, scope)
    \/ LockCacheRead
    \/ LockCached
    \/ LockListing
    \/ LockInsert
    \/ LockFail

\* the executor polls a task that can make progress
SpecLock == InitFile /\ [][NextLock]_vars /\ WF_tasks(LockStep)

\* C27: every get_block call terminates; for an id in the listing of the
\* TXID without a cache slot it takes the write lock of the cache, inserts
\* the block and returns, and never waits on a cache guard it still holds.
C27_GetBlockTerminates == (tasks # << >>) ~> (tasks = << >>)

\* the call of an uncached, listed id has returned the block read from disk
C27_Returned ==
    /\ calls = MaxCalls + MaxReads
    /\ last.op = "get_block" /\ last.status = "Ok"
    /\ last.id \in DOMAIN file.dir
    /\ last.val = <<Deserialize(file.dir[last.id])>>

(***************************************************************************)
(* split_child applied to every place where a node has a full child, and   *)
(* to the full root under the new root that insert makes over it.          *)
(***************************************************************************)
\* the children with 2 * order - 1 keys: the block of the parent and the
\* position of the child in it
FullChildren(b, t) ==
    {site \in [pid : FileBlockIds(b.file, t), i : 0..(2 * b.order)] :
        /\ site.i < Len(NodeOf(b, t, site.pid).children)
        /\ Len(NodeOf(b, t, NodeOf(b, t, site.pid).children[site.i + 1]).keys)
              = (2 * b.order) - 1}

\* insert, lines 622-634: the new root over the old one, upgraded
RootGrown(b, t) ==
    BTUpgrade(
        WithFile(NewRoot(b, t, UniqueId(b)),
                 FileCreateBlock(b.file, t, UniqueId(b),
                     [NodeNew(FALSE, << >>)
                         EXCEPT !.children = <<RootId(b, t)>>]).f),
        t, UniqueId(b)).b

\* the trees split_child is called on: the tree as it is, and the tree
\* with the new root when the root is full
SplitTrees(b, t) ==
    {b} \cup IF Len(NodeOf(b, t, RootId(b, t)).keys) = (2 * b.order) - 1
             THEN {RootGrown(b, t)}
             ELSE {}

\* the nodes after the split of child c at position i of node p: what
\* stays in c, what the sibling holds, and what p gains
SplitExact(p, c, p2, c2, sibling, sibling_id, i, m) ==
    /\ c2.keys = SubSeq(c.keys, 1, m - 1)
    /\ sibling.keys = SubSeq(c.keys, m + 1, (2 * m) - 1)
    /\ p2.keys = SubSeq(p.keys, 1, i) \o <<c.keys[m]>>
                    \o SubSeq(p.keys, i + 1, Len(p.keys))
    /\ p2.children = SubSeq(p.children, 1, i + 1) \o <<sibling_id>>
                        \o SubSeq(p.children, i + 2, Len(p.children))
    /\ sibling.leaf = c.leaf /\ c2.leaf = c.leaf
    /\ IF c.leaf
       THEN c2.children = << >> /\ sibling.children = << >>
       ELSE /\ c2.children = SubSeq(c.children, 1, m)
            /\ sibling.children = SubSeq(c.children, m + 1, 2 * m)
    /\ c2.keys \o <<p2.keys[i + 1]>> \o sibling.keys = c.keys
    /\ c2.children \o sibling.children = c.children

\* split_child at a site of tree b, whose result is out
SplitExactAt(b, t, out, pid, i) ==
    /\ out.r.status = "Ok"
    /\ NodeOf(out.b, t, pid).children[i + 2] \notin FileBlockIds(b.file, t)
    /\ SplitExact(NodeOf(b, t, pid),
                  NodeOf(b, t, NodeOf(b, t, pid).children[i + 1]),
                  NodeOf(out.b, t, pid),
                  NodeOf(out.b, t, NodeOf(b, t, pid).children[i + 1]),
                  NodeOf(out.b, t, NodeOf(out.b, t, pid).children[i + 2]),
                  NodeOf(out.b, t, pid).children[i + 2],
                  i, b.order)
    /\ \A id \in FileBlockIds(b.file, t) \ {pid, NodeOf(b, t, pid).children[i + 1]} :
          NodeOf(out.b, t, id) = NodeOf(b, t, id)

\* C28: the split of a full child c (keys k0..k(2m-2)) at position i of
\* node P leaves c with k0..k(m-2), gives the new sibling km..k(2m-2),
\* inserts k(m-1) into P.keys at i and the sibling id into P.children at
\* i + 1; of a non-leaf c the first m child ids stay and the last m move;
\* no key and no child id is lost or duplicated.
C28_SplitExact ==
    \A b \in SplitTrees(btree, Creator) :
        \A site \in FullChildren(b, Creator) :
            SplitExactAt(b, Creator,
                         SplitChild(BTUpgrade(b, Creator, site.pid).b, Creator,
                                    site.pid, site.pid, site.i),
                         site.pid, site.i)

\* the root is full and not a leaf: its split moves child ids
C28_Witness ==
    /\ ~NodeOf(btree, Creator, RootId(btree, Creator)).leaf
    /\ Len(NodeOf(btree, Creator, RootId(btree, Creator)).keys)
          = (2 * btree.order) - 1
    /\ FullChildren(RootGrown(btree, Creator), Creator) # {}

(***************************************************************************)
(* Inserts one after the other, each followed from one await to the next,  *)
(* over enough keys to split a non-leaf root, with a delete of one range.  *)
(***************************************************************************)
\* insert(txn_id, key) is called while no call is in flight
StepBegin(key) ==
    /\ tasks = << >>
    /\ tasks' = [run |-> <<TaskNew(key)>>, ret |-> "Ok"]
    /\ UNCHANGED <<file, txns, commit, last, history, calls, btree, live, table>>

\* the insert has returned
StepEnd ==
    /\ tasks # << >>
    /\ tasks.run[1].pc \notin {"start", "splitroot", "undelete", "leaf",
                               "descend", "upnode", "split", "beside"}
    /\ last' = Call("insert", Creator, 0,
                    IF tasks.ret = "done" THEN Ok(0) ELSE Err(tasks.ret))
    /\ tasks' = << >>
    /\ UNCHANGED <<file, txns, commit, history, calls, btree, live, table>>

\* delete(txn_id, range) between two inserts
StepDelete(range) ==
    /\ tasks = << >>
    /\ GrowDelete(range)

NextSteps ==
    \/ \E key \in GrowKeys : StepBegin(key)
    \/ \E range \in GrowRanges : StepDelete(range)
    \/ TaskStart(1)
    \/ TaskSplitRoot(1)
    \/ TaskLeaf(1)
    \/ TaskUndelete(1)
    \/ TaskDescend(1)
    \/ TaskUpgrade(1)
    \/ TaskSplit(1)
    \/ TaskSibling(1)
    \/ StepEnd

SpecSteps == InitBTree /\ [][NextSteps]_vars

\* the number of keys of the block the running insert is at
KeysAtTask ==
    Len(NodeOf(btree, Creator, tasks.run[1].node).keys)

\* C29: after every sequence of inserts no node holds more than
\* 2 * order - 1 keys, and no step of an insert adds a key (the key
\* inserted into a leaf, the median of a split into the parent) to a node
\* that holds 2 * order - 1 keys already.
C29_NeverOverfull ==
    [][/\ \A id \in FileBlockIds(btree'.file, Creator) :
             Len(NodeOf(btree', Creator, id).keys) <= (2 * btree.order) - 1
       /\ (TaskLeaf(1) \/ TaskSplit(1))
             => KeysAtTask < (2 * btree.order) - 1]_vars

\* an insert has returned Ok on a tree of three levels: a full leaf, a full
\* root leaf and a full root over leaves have been met and split
C29_Witness ==
    /\ tasks = << >>
    /\ last.op = "insert" /\ last.status = "Ok"
    /\ Inner(btree, Creator) # {}

\* no two keys of a node are equal
KeysDistinct(keys) ==
    \A i \in 1..Len(keys) : \A j \in (i + 1)..Len(keys) :
        Compare(keys[i].value, keys[j].value) # "Equal"

\* the stream of the range yields two keys or more
TwoInside(b, t, range) ==
    /\ BTreeStream(b, t, range).status = "Ok"
    /\ Len(BTreeStream(b, t, range).val[1]) >= 2

\* C30: update keeps the ordering of the tree: after update(T, range,
\* values) on a tree with two or more keys inside range, the keys of every
\* node are sorted, no two keys of a node are equal, and every key of a
\* non-leaf node separates the subtrees beside it.
C30_UpdateKeepsOrder ==
    [][\A t \in Writers, range \in TxnRanges, value \in TxnKeys :
          (UndoUpdate(t, range, value) /\ TwoInside(btree, t, range))
             => \A id \in FileBlockIds(btree'.file, t) :
                   /\ Ordered(btree', t, NodeOf(btree', t, id))
                   /\ KeysDistinct(NodeOf(btree', t, id).keys)]_vars

(***************************************************************************)
(* The slice planner of a table whose primary index has four columns and   *)
(* which has one auxiliary index.  A column bound is an equality ("is") or *)
(* a range ("in"); the bound of a column without one is the unbounded      *)
(* range.  TableIndex::slice is followed one loop iteration at a time.     *)
(***************************************************************************)
PlanPrimary == <<"a", "b", "c", "d">>

\* the auxiliary indexes in declaration order, each with its columns: the
\* indexed column and the primary key
PlanAuxiliary == <<[name |-> "by_c", columns |-> <<"c", "a">>]>>

BoundKinds == {"is", "in"}

\* ColumnBound::default(): the unbounded range
ColumnBoundDefault == "in"

\* ColumnBound::is_range
IsRange(bound) == bound = "in"

\* validate_bounds, lines 175-184: the bounds left after the first k columns
BoundsLeft(columns, k, bounds) ==
    (DOMAIN bounds) \ {columns[j] : j \in 1..k}

\* validate_bounds, lines 177-178: the bound pushed for column k
OrderedBound(columns, k, bounds) ==
    IF columns[k] \in DOMAIN bounds THEN bounds[columns[k]] ELSE ColumnBoundDefault

\* the columns walked before the loop of lines 175-184 breaks
WalkedTo(columns, bounds) ==
    CHOOSE k \in 1..Len(columns) :
        /\ BoundsLeft(columns, k, bounds) = {}
        /\ \A j \in 1..(k - 1) : BoundsLeft(columns, j, bounds) # {}

\* Index::validate_bounds
ValidateBounds_AnyRange(columns, bounds) ==
    IF bounds = EmptyMap
    THEN "Ok"
    ELSE IF BoundsLeft(columns, Len(columns), bounds) # {}
    THEN "BadRequest"
    ELSE "Ok"

ValidateBounds(columns, bounds) ==
    IF bounds = EmptyMap
    THEN "Ok"
    ELSE IF BoundsLeft(columns, Len(columns), bounds) # {}
    THEN "BadRequest"
    ELSE IF \E j \in 1..(WalkedTo(columns, bounds) - 1) :
                IsRange(OrderedBound(columns, j, bounds))
    THEN "Unsupported"
    ELSE "Ok"

\* slice, lines 703-706: the given bounds in the order of the primary columns
BoundsInOrder(bounds) ==
    LET named == {k \in 1..Len(PlanPrimary) : PlanPrimary[k] \in DOMAIN bounds}
        RECURSIVE Listed(_)
        Listed(k) ==
            IF k > Len(PlanPrimary) THEN << >>
            ELSE IF k \in named
            THEN <<[name |-> PlanPrimary[k], bound |-> bounds[PlanPrimary[k]]]>>
                    \o Listed(k + 1)
            ELSE Listed(k + 1)
    IN  Listed(1)

\* slice, line 714: bounds[..i] collected into a map
SubsetOf(bounds, i) ==
    [name \in {bounds[j].name : j \in 1..i} |->
        (CHOOSE j \in 1..i : bounds[j].name = name)]

SubsetBounds(bounds, i) ==
    [name \in {bounds[j].name : j \in 1..i} |->
        bounds[SubsetOf(bounds, i)[name]].bound]

\* slice, lines 719 and 732-733: the first index that validates the subset
Supporting(subset) ==
    IF ValidateBounds(PlanPrimary, subset) = "Ok"
    THEN <<"primary">>
    ELSE LET able == {x \in 1..Len(PlanAuxiliary) :
                         ValidateBounds(PlanAuxiliary[x].columns, subset) = "Ok"}
         IN  IF able = {} THEN << >>
             ELSE <<PlanAuxiliary[CHOOSE x \in able : \A y \in able : x <= y].name>>

\* the planner at the top of its loop, line 710
PlanNew(given) ==
    [pc |-> "while", given |-> given, bounds |-> BoundsInOrder(given),
     initial |-> Len(BoundsInOrder(given)), i |-> Len(BoundsInOrder(given)),
     plan |-> << >>]

\* slice, lines 721-730 and 734-743: an index slice is merged into the plan
PlanMerged(task, index) ==
    LET plan == Append(task.plan,
                       [index |-> index,
                        names |-> {task.bounds[j].name : j \in 1..task.i}])
        rest == SubSeq(task.bounds, task.i + 1, Len(task.bounds))
    IN  IF rest = << >>
        THEN [task EXCEPT !.pc = "Ok", !.plan = plan, !.bounds = rest]
        ELSE [task EXCEPT !.plan = plan, !.bounds = rest, !.i = task.i - 1]

\* slice, lines 713-748: one iteration of while i > 0; bounds[..i] panics
\* when i is past the end of the slice
PlanTried(task) ==
    IF task.i > Len(task.bounds)
    THEN [task EXCEPT !.pc = "Panic"]
    ELSE IF Supporting(SubsetBounds(task.bounds, task.i)) # << >>
    THEN PlanMerged(task, Supporting(SubsetBounds(task.bounds, task.i))[1])
    ELSE [task EXCEPT !.i = task.i - 1]

\* slice, lines 750-757: the end of one round of the outer loop
PlanRounded(task) ==
    IF Len(task.bounds) = task.initial
    THEN [task EXCEPT !.pc = "BadRequest"]
    ELSE [task EXCEPT !.initial = Len(task.bounds), !.i = Len(task.bounds)]

\* every set of bounds on the columns of the primary index
BoundSets ==
    UNION {[names -> BoundKinds] : names \in SUBSET {PlanPrimary[k] : k \in 1..Len(PlanPrimary)}}

PlanMove(task) ==
    /\ tasks' = [tasks EXCEPT !.run[1] = task]
    /\ UNCHANGED <<file, txns, commit, last, history, calls, btree, live, table>>

\* slice(bounds) is called
PlanBegin(given) ==
    /\ tasks = << >>
    /\ tasks' = [run |-> <<PlanNew(given)>>, ret |-> "Ok"]
    /\ UNCHANGED <<file, txns, commit, last, history, calls, btree, live, table>>

PlanTry ==
    /\ tasks # << >>
    /\ tasks.run[1].pc = "while"
    /\ tasks.run[1].i > 0
    /\ PlanMove(PlanTried(tasks.run[1]))

PlanRound ==
    /\ tasks # << >>
    /\ tasks.run[1].pc = "while"
    /\ tasks.run[1].i = 0
    /\ PlanMove(PlanRounded(tasks.run[1]))

NextPlan ==
    \/ \E given \in BoundSets : PlanBegin(given)
    \/ PlanTry
    \/ PlanRound

SpecPlan == InitTable /\ [][NextPlan]_vars

\* the plan assigns every given bound to exactly one index slice
PlanCovers(task) ==
    /\ UNION {task.plan[x].names : x \in 1..Len(task.plan)} = DOMAIN task.given
    /\ \A x \in 1..Len(task.plan), y \in 1..Len(task.plan) :
          x # y => task.plan[x].names \cap task.plan[y].names = {}

\* no index supports a non-empty leading subset of the bounds that remain
NoneSupports(task) ==
    \A i \in 1..Len(task.bounds) : Supporting(SubsetBounds(task.bounds, i)) = << >>

\* C31: slice ends in one of two outcomes for every set of column bounds:
\* a plan in which every given bound is assigned to exactly one index
\* slice, or BadRequest because no index supports a non-empty leading
\* subset of the remaining bounds; it never aborts on an out-of-range
\* subset.
C31_PlannerOutcomes ==
    tasks # << >>
       => /\ tasks.run[1].pc \in {"while", "Ok", "BadRequest"}
          /\ tasks.run[1].pc = "Ok" => PlanCovers(tasks.run[1])
          /\ tasks.run[1].pc = "BadRequest" => NoneSupports(tasks.run[1])

\* the key columns of the primary index; its other columns are its values
PlanPrimaryKey == <<"a">>

\* the columns form a prefix of the key columns, and only the bound of the
\* last of them may be a range
PrefixBounds(key, bounds) ==
    \E k \in 1..Len(key) :
        /\ DOMAIN bounds = {key[j] : j \in 1..k}
        /\ \A j \in 1..(k - 1) : ~IsRange(bounds[key[j]])

\* C32: Index::validate_bounds accepts a non-empty bound set if and only if
\* the bounded columns form a prefix of the key columns of the index and no
\* bound other than the last is a range.
C32_ValidatesPrefix ==
    (tasks # << >> /\ tasks.run[1].given # EmptyMap)
       => /\ ValidateBounds(PlanPrimary, tasks.run[1].given) = "Ok"
                <=> PrefixBounds(PlanPrimaryKey, tasks.run[1].given)
          /\ \A x \in 1..Len(PlanAuxiliary) :
                ValidateBounds(PlanAuxiliary[x].columns, tasks.run[1].given) = "Ok"
                   <=> PrefixBounds(PlanAuxiliary[x].columns, tasks.run[1].given)

\* C32, with the columns of the index (its key columns followed by its
\* value columns) in the place of its key columns: validate_bounds accepts
\* a non-empty bound set if and only if the bounded columns form a prefix
\* of the columns of the index and no bound other than the last is a range.
C32_ValidatesColumnPrefix ==
    (tasks # << >> /\ tasks.run[1].given # EmptyMap)
       => /\ ValidateBounds(PlanPrimary, tasks.run[1].given) = "Ok"
                <=> PrefixBounds(PlanPrimary, tasks.run[1].given)
          /\ \A x \in 1..Len(PlanAuxiliary) :
                ValidateBounds(PlanAuxiliary[x].columns, tasks.run[1].given) = "Ok"
                   <=> PrefixBounds(PlanAuxiliary[x].columns, tasks.run[1].given)

\* the planner has taken the primary index for an equality on the key
\* column and a range on the value column after it
C32_Witness ==
    /\ tasks # << >>
    /\ DOMAIN tasks.run[1].given = {"a", "b"}
    /\ tasks.run[1].given["a"] = "is" /\ tasks.run[1].given["b"] = "in"
    /\ tasks.run[1].pc = "Ok"
    /\ tasks.run[1].plan = <<[index |-> "primary", names |-> {"a", "b"}]>>


\* ---------------------------------------------------------------------
\* The staging directory pending/<txid>
\* ---------------------------------------------------------------------

\* File::commit has created pending/<txid> (line 210) and has not returned
Staging(t) ==
    /\ txns[t] = "committing"
    /\ commit.txn = t
    /\ commit.pc \in {"dir", "staged", "cached", "interrupted"}

\* C33: pending/<txid> exists only if txid has staged writes in a commit
\* that is in progress, or has committed and has not been finalized; it
\* does not exist before commit(txid) starts staging, and it does not
\* exist after finalize(txid).
C33_PendingLifecycle ==
    \A t \in TxnIds :
        /\ t \in DOMAIN file.pending => Staging(t) \/ txns[t] = "committed"
        /\ txns[t] = "active" => t \notin DOMAIN file.pending
        /\ txns[t] = "finalized" => t \notin DOMAIN file.pending



\* ---------------------------------------------------------------------
\* Writers of the canonical directory
\* ---------------------------------------------------------------------

\* the guard of this.dir.write() (line 192) is alive: File::commit has
\* taken it and has not returned
DirLocked == commit.pc \in {"listed", "drained", "dir", "staged", "cached"}

\* dir.copy_all has moved every blob of pending/<txid> of the commit
CopyFinished(f) ==
    commit.txn \in DOMAIN f.pending => DOMAIN f.pending[commit.txn] = {}

\* C34: create_block, get_block, mutate, the store through a block guard
\* and finalize never add, remove or change a blob of the canonical
\* directory (unique_id and is_empty are the state functions UniqueId and
\* FileIsEmpty, which change nothing); every step of a running File that
\* changes the directory is a step of commit taken with the exclusive lock
\* of the directory held, and a commit that returns Ok gives the lock up
\* only after copy_all has finished.
C34_OnlyCommitWritesDir ==
    [][ /\ (\E t \in TxnIds, id \in BlockIds, d \in Data :
               CreateBlock(t, id, d) \/ WriteBlock(t, id, d))
              => file'.dir = file.dir
        /\ (\E t \in TxnIds, id \in BlockIds : GetBlock(t, id) \/ Mutate(t, id))
              => file'.dir = file.dir
        /\ (\E t \in TxnIds : Finalize(t)) => file'.dir = file.dir
        /\ (Running /\ file'.dir # file.dir) => DirLocked'
        /\ (DirLocked /\ ~DirLocked' /\ txns'[commit.txn] = "committed")
              => CopyFinished(file') ]_vars

\* a commit is copying: the directory already differs from the one it
\* found, after a create_block and a mutate at the same TXID
C34_Witness ==
    /\ DirLocked
    /\ file.dir # commit.dirAtStart
    /\ last.op \in {"mutate", "write_block"}
    /\ last.txn = commit.txn



\* ---------------------------------------------------------------------
\* Inserts of keys that are live
\* ---------------------------------------------------------------------

\* the key is in a slot without a tombstone
SlotLive(b, t, key) ==
    \E s \in Slots(b, t) : s.value = key /\ ~s.deleted

\* the same root id, the same blocks, the same node in every block
SameNodes(b, c, t) ==
    /\ RootId(c, t) = RootId(b, t)
    /\ FileBlockIds(c.file, t) = FileBlockIds(b.file, t)
    /\ \A id \in FileBlockIds(b.file, t) : NodeOf(c, t, id) = NodeOf(b, t, id)

\* C35: insert(T, k) on a tree in which k is live modifies no node block,
\* creates no block and leaves the root id as it was, also when the root or
\* a node on the path to k holds 2 * order - 1 keys.
C35_ReinsertChangesNothing ==
    [][\A key \in AgainKeys :
          (AgainInsert(key) /\ SlotLive(btree, Creator, key))
              => SameNodes(btree, btree', Creator)]_vars



\* ---------------------------------------------------------------------
\* update with a values tuple that is not one value per schema column
\* ---------------------------------------------------------------------

\* the schema of the index has one column; tuples of no value and of two
WidthValues == {<< >>, <<1, 1>>}

NextWidth ==
    \/ NextUndo
    \/ \E t \in Writers, range \in TxnRanges, value \in WidthValues :
           UndoUpdate(t, range, value)

SpecWidth == InitUndo /\ [][NextWidth]_vars

\* C36: update(T, range, values) with a values tuple whose length differs
\* from the number of schema columns fails with BadRequest and modifies no
\* node.
C36_UpdateChecksWidth ==
    [][\A t \in Writers :
          \A range \in TxnRanges :
             \A value \in WidthValues :
                UndoUpdate(t, range, value)
                    => /\ last'.status = "BadRequest"
                       /\ SameNodes(btree, btree', t)]_vars



\* ---------------------------------------------------------------------
\* The order of a new index
\* ---------------------------------------------------------------------
MaxColumns == 2

\* dtype().size() and max_len() of a column: Options, << >> or <<n>>
ColumnSizes == {<< >>, <<1>>, <<8>>}

ColumnMaxLens == {<< >>, <<100>>, <<900>>, <<1800>>}

ColumnTypes == {[size |-> sz, max_len |-> ml] : sz \in ColumnSizes, ml \in ColumnMaxLens}

RowSchemas ==
    UNION {[1..n -> ColumnTypes] : n \in 1..MaxColumns}

\* BTreeFile::create, lines 161-181: the key size up to column i, or the
\* error of the first column that has a size and a maximum length, or
\* neither
RECURSIVE CreateKeySize(_, _)
CreateKeySize(schema, i) ==
    IF i = 0
    THEN Ok(0)
    ELSE LET before == CreateKeySize(schema, i - 1)
             col == schema[i]
         IN  IF before.status # "Ok"
             THEN before
             ELSE IF col.size # << >>
             THEN IF col.max_len # << >>
                  THEN Err("BadRequest")
                  ELSE Ok(before.val[1] + col.size[1])
             ELSE IF col.max_len # << >>
             THEN Ok(before.val[1] + col.max_len[1] + 8)
             ELSE Err("BadRequest")

\* BTreeFile::create, lines 161-192: the order of the index
CreateOrder(schema) ==
    LET size == CreateKeySize(schema, Len(schema))
    IN  IF size.status # "Ok" THEN size ELSE Ok(Order(size.val[1] + 2))

InitOrder ==
    /\ \E schema \in RowSchemas : history = <<schema>>
    /\ last = NoCall
    /\ btree = EmptyMap
    /\ live = EmptyMap
    /\ table = EmptyMap
    /\ file = FileNew
    /\ txns = [t \in TxnIds |-> "active"]
    /\ commit = Idle
    /\ calls = 0
    /\ tasks = << >>

OrderCreate ==
    /\ last = NoCall
    /\ last' = Call("create", Creator, 0, CreateOrder(history[1]))
    /\ UNCHANGED <<btree, live, table, file, txns, commit, calls, history, tasks>>

NextOrder == OrderCreate

SpecOrder == InitOrder /\ [][NextOrder]_vars

\* the largest number of bytes a value of the column takes
ColumnBytes(col) == IF col.size # << >> THEN col.size[1] ELSE col.max_len[1]

RECURSIVE SchemaBytes(_, _)
SchemaBytes(schema, i) ==
    IF i = 0 THEN 0 ELSE SchemaBytes(schema, i - 1) + ColumnBytes(schema[i])

MaxOf(a, b) == IF a > b THEN a ELSE b

\* the column has neither an inherent size nor a declared maximum length
Unsized(col) == col.size = << >> /\ col.max_len = << >>

\* the column has one of the two, and not both
OneSized(col) == (col.size = << >>) # (col.max_len = << >>)

\* C37: the order of a new index is max(2, floor((4000 - 16) / (key_size +
\* 16))), with key_size the sum of the columns' maximum byte sizes plus 2;
\* it is at least 2 for every schema, and a schema with a column that has
\* neither an inherent size nor a declared maximum length is rejected with
\* BadRequest.
C37_OrderFormula ==
    last.op = "create"
       => /\ (\E i \in 1..Len(history[1]) : Unsized(history[1][i]))
                => last.status = "BadRequest"
          /\ (\A i \in 1..Len(history[1]) : OneSized(history[1][i]))
                => /\ last.status = "Ok"
                   /\ last.val[1] >= 2
                   /\ last.val[1]
                         = MaxOf(2, (DEFAULT_BLOCK_SIZE - 16)
                                       \div ((SchemaBytes(history[1], Len(history[1])) + 2) + 16))



\* ---------------------------------------------------------------------
\* Parent pointers
\* ---------------------------------------------------------------------

\* the block id is in the children list of the node in block pid
ChildOf(b, t, id, pid) ==
    /\ pid \in FileBlockIds(b.file, t)
    /\ id \in SeqSet(NodeOf(b, t, pid).children)

\* C38: after every sequence of inserts the root has no parent, and the
\* parent field of every other node that has one is the id of the node
\* whose children list contains that node, also for the sibling made when
\* the root or an inner child is split.
C38_ParentsConsistent ==
    /\ NodeOf(btree, Creator, RootId(btree, Creator)).parent = << >>
    /\ \A id \in FileBlockIds(btree.file, Creator) \ {RootId(btree, Creator)} :
          NodeOf(btree, Creator, id).parent # << >>
              => ChildOf(btree, Creator, id, NodeOf(btree, Creator, id).parent[1])



\* ---------------------------------------------------------------------
\* BTreeRange::contains
\* ---------------------------------------------------------------------
MaxBoundValue == 3

\* the bounds of one end of a range of an index with one column: none,
\* Unbounded, In(v) or Ex(v)
EndBounds ==
    {<< >>, <<Unbounded>>}
        \cup {<<In(v)>> : v \in 1..MaxBoundValue}
        \cup {<<Ex(v)>> : v \in 1..MaxBoundValue}

ContainRanges == {BTreeRange(s, e) : s \in EndBounds, e \in EndBounds}

\* the keys on both sides of every bound
ContainKeys == {<<k>> : k \in 0..MaxBoundValue + 1}

\* lines 23-31: does the pair of start bounds of one column return false
StartRefuses(outer, inner) ==
    IF outer.kind = "Un" THEN FALSE
    ELSE IF inner.kind = "Un" THEN TRUE
    ELSE IF outer.kind = "Ex" /\ inner.kind = "In"
    THEN CompareValue(outer.v, inner.v) # "Less"
    ELSE CompareValue(outer.v, inner.v) = "Greater"

\* lines 37-45: does the pair of end bounds of one column return false
EndRefuses(outer, inner) ==
    IF outer.kind = "Un" THEN FALSE
    ELSE IF inner.kind = "Un" THEN TRUE
    ELSE IF outer.kind = "Ex" /\ inner.kind = "In"
    THEN CompareValue(outer.v, inner.v) # "Greater"
    ELSE CompareValue(outer.v, inner.v) = "Less"

\* the length of schema.iter().zip(a.iter().zip(b))
ZipLen(columns, a, b) ==
    IF columns <= Len(a) /\ columns <= Len(b) THEN columns
    ELSE IF Len(a) <= Len(b) THEN Len(a) ELSE Len(b)

\* BTreeRange::contains over a schema of so many columns
RangeContains(outer, inner, columns) ==
    /\ \A i \in 1..ZipLen(columns, outer.start, inner.start) :
          ~StartRefuses(outer.start[i], inner.start[i])
    /\ \A i \in 1..ZipLen(columns, outer.end, inner.end) :
          ~EndRefuses(outer.end[i], inner.end[i])

InitContains ==
    /\ \E outer \in ContainRanges, inner \in ContainRanges :
          history = <<outer, inner>>
    /\ last = NoCall
    /\ btree = EmptyMap
    /\ live = EmptyMap
    /\ table = EmptyMap
    /\ file = FileNew
    /\ txns = [t \in TxnIds |-> "active"]
    /\ commit = Idle
    /\ calls = 0
    /\ tasks = << >>

ContainsCall ==
    /\ last = NoCall
    /\ last' = Call("contains", Creator, 0,
                    Ok(RangeContains(history[1], history[2], 1)))
    /\ UNCHANGED <<btree, live, table, file, txns, commit, calls, history, tasks>>

NextContains == ContainsCall

SpecContains == InitContains /\ [][NextContains]_vars

\* C39: outer.contains(inner) returns true only if every key inside the
\* bounds of inner is inside the bounds of outer, where a bound missing at
\* the end of either range counts as Unbounded: an inner range with fewer
\* bounds than a bounded outer range is not contained.
C39_ContainsSound ==
    (last.op = "contains" /\ last.val[1])
        => \A key \in ContainKeys :
              InRange(key, history[2]) => InRange(key, history[1])


====
